---------------------------- MODULE Spec2Model ----------------------------
(***************************************************************************)
(* Model of the command-line HTTP/1.1 client: the HTTP response parser,    *)
(* the Connection Manager and the Client Orchestrator (processRequest).    *)
(*                                                                         *)
(* Strings are sequences of one-character strings and positions are        *)
(* 0-based, as in std::string / std::string_view.                          *)
(***************************************************************************)
EXTENDS Integers, Sequences, FiniteSets, Bags, TLC

VARIABLES
    \* ConnectionManager object and the descriptors it uses
    socket,     \* ConnectionManager::socket: 0 (null) or the owned descriptor
    connected,  \* ConnectionManager::connected
    link,       \* TCP state of the held socket: "none", "unconnected",
                \* "established", "peer_closed", "reset"
    nextFd,     \* the descriptor the next ::socket call returns
    openFds,    \* the descriptors currently open
    \* HttpClient::processRequest in progress
    pc,         \* position in processRequest, "idle" outside of it
    ip, port,   \* its arguments
    request,    \* its argument: the HttpRequest
    raw,        \* the raw response bytes handed to HttpResponse::parse
    response,   \* the HttpResponse object being parsed
    parsed,     \* "fresh" | "ok" | "fail": the return value of parse
    \* observations
    trace,      \* the Connection Manager / parser calls of the current
                \* processRequest call, in order, with their results
    outcome,    \* how the last processRequest ended: "none", "running",
                \* "returned", "propagated"
    lastCall,   \* the last call on the Connection Manager and its result
    script,     \* ReceiveSpec: the results of the poll/recv system calls
    closeSeen,  \* descriptors on which a non-keep-alive response was parsed
    \* Socket objects used directly (SocketSpec)
    objs,       \* the live Socket objects: the bag of their socket_fd values
                \* (-1 for an object that owns no descriptor)
    closes,     \* descriptor -> the number of close() calls made on it
    nonblock,   \* the descriptors whose O_NONBLOCK flag is set
    sending,    \* the Socket::send call in progress or just ended
    \* the peer of a kept-alive connection (KeepAliveSpec)
    sent,       \* the number of processRequest calls made so far
    pending,    \* the requests the peer has received and not yet answered
    inbox,      \* the bytes the peer has sent that the client has not read
    \* the InputHandler's menu state machine (MenuSpec); its ip and port
    \* fields are the variables ip and port, its position in run() is pc
    currentState,
    previousState,
    signal_received, \* main.cpp's flag: 0, or the number of the signal
    cin,        \* the state of std::cin: "good", or "eof" once exhausted
    \* the Logger and the threads calling it (LoggerSpec)
    logMutex,   \* the owner of Logger::logMutex, or "free"
    logpc,      \* caller -> its position in Logger::log / Logger::print
    handler,    \* the thread signalHandler runs on, or "none"
    out,        \* what was written to the output streams, in order
    \* the Config singleton (ConfigSpec)
    config,     \* its fields configLoaded and data
    optind      \* getopt's index of the next argument to process

wvars == <<socket, connected, link, nextFd, openFds>>
prvars == <<pc, ip, port, request, trace, outcome, closeSeen>>
parsevars == <<raw, response, parsed>>
sockvars == <<objs, closes, nonblock, sending>>
peervars == <<sent, pending, inbox>>
uivars == <<currentState, previousState, signal_received, cin>>
logvars == <<logMutex, logpc, handler, out>>
cfgvars == <<config, optind>>
appvars == <<uivars, logvars, cfgvars>>
vars == <<socket, connected, link, nextFd, openFds, pc, ip, port, request,
          raw, response, parsed, trace, outcome, lastCall, script, closeSeen,
          objs, closes, nonblock, sending, sent, pending, inbox,
          currentState, previousState, signal_received, cin,
          logMutex, logpc, handler, out, config, optind>>

---------------------------------------------------------------------------
(* Characters and std::string primitives                                   *)

CR == "\r"
LF == "\n"
SP == " "
HT == "\t"
CRLF == <<CR, LF>>
CRLFCRLF == <<CR, LF, CR, LF>>

NPOS == -1

Uppers == <<"A","B","C","D","E","F","G","H","I","J","K","L","M",
            "N","O","P","Q","R","S","T","U","V","W","X","Y","Z">>
Lowers == <<"a","b","c","d","e","f","g","h","i","j","k","l","m",
            "n","o","p","q","r","s","t","u","v","w","x","y","z">>

Digits == <<"0","1","2","3","4","5","6","7","8","9">>

Whitespace == {SP, HT, LF, CR, "\f"}

Min(a, b) == IF a < b THEN a ELSE b

RECURSIVE Concat(_)
Concat(ss) == IF ss = <<>> THEN <<>> ELSE Head(ss) \o Concat(Tail(ss))

\* all sequences over S of length at most n
RECURSIVE SeqsUpTo(_, _)
SeqsUpTo(S, n) ==
    IF n = 0 THEN {<<>>}
    ELSE LET shorter == SeqsUpTo(S, n - 1)
         IN  shorter \cup {Append(q, x) : q \in shorter, x \in S}

\* ::tolower on one character
tolower(c) ==
    IF \E i \in 1..26 : Uppers[i] = c
    THEN Lowers[CHOOSE i \in 1..26 : Uppers[i] = c]
    ELSE c

\* n_utils::str_manip::toLower
toLower(s) == [i \in 1..Len(s) |-> tolower(s[i])]

\* std::string::substr(pos, n), pos <= size
Substr(s, pos, n) == SubSeq(s, pos + 1, Min(pos + n, Len(s)))

\* std::string::substr(pos)
SubstrFrom(s, pos) == SubSeq(s, pos + 1, Len(s))

\* does pat occur in s at 0-based position i
MatchAt(s, pat, i) ==
    /\ i >= 0
    /\ i + Len(pat) <= Len(s)
    /\ \A j \in 1..Len(pat) : s[i + j] = pat[j]

\* std::string::find(pat, from)
Find(s, pat, from) ==
    IF \E i \in from..(Len(s) - Len(pat)) : MatchAt(s, pat, i)
    THEN CHOOSE i \in from..(Len(s) - Len(pat)) :
            /\ MatchAt(s, pat, i)
            /\ \A k \in from..(i - 1) : ~MatchAt(s, pat, k)
    ELSE NPOS

\* std::string::find_first_not_of(set, from)
FindFirstNotOf(s, set, from) ==
    IF \E i \in from..(Len(s) - 1) : s[i + 1] \notin set
    THEN CHOOSE i \in from..(Len(s) - 1) :
            /\ s[i + 1] \notin set
            /\ \A k \in from..(i - 1) : s[k + 1] \in set
    ELSE NPOS

\* std::string::find_last_not_of(set)
FindLastNotOf(s, set) ==
    IF \E i \in 0..(Len(s) - 1) : s[i + 1] \notin set
    THEN CHOOSE i \in 0..(Len(s) - 1) :
            /\ s[i + 1] \notin set
            /\ \A k \in (i + 1)..(Len(s) - 1) : s[k + 1] \in set
    ELSE NPOS

\* n_utils::str_manip::trim
trim(s) ==
    LET start == FindFirstNotOf(s, Whitespace, 0)
        end   == FindLastNotOf(s, Whitespace)
    IN  IF start = NPOS THEN <<>> ELSE Substr(s, start, end - start + 1)

IsDigit(c) == \E i \in 1..10 : Digits[i] = c
DigitVal(c) == (CHOOSE i \in 1..10 : Digits[i] = c) - 1

RECURSIVE DigitsValue(_)
DigitsValue(ds) ==
    IF ds = <<>> THEN 0
    ELSE 10 * DigitsValue(SubSeq(ds, 1, Len(ds) - 1)) + DigitVal(ds[Len(ds)])

\* length of the longest prefix of s made of decimal digits
RECURSIVE DigitPrefixLen(_)
DigitPrefixLen(s) ==
    IF s = <<>> \/ ~IsDigit(s[1]) THEN 0
    ELSE 1 + DigitPrefixLen(Tail(s))

\* Largest number of decimal digits read without reporting out_of_range.
MaxDigits == 9

\* std::stoi / std::stoul on unsigned decimal text: leading whitespace is
\* skipped, the longest digit prefix is converted, trailing text is ignored;
\* no digit gives invalid_argument, too many give out_of_range.
strtol(s) ==
    LET start == FindFirstNotOf(s, Whitespace, 0)
        rest  == IF start = NPOS THEN <<>> ELSE SubstrFrom(s, start)
        n     == DigitPrefixLen(rest)
    IN  IF n = 0 THEN [tag |-> "invalid_argument", val |-> 0]
        ELSE IF n > MaxDigits THEN [tag |-> "out_of_range", val |-> 0]
        ELSE [tag |-> "ok", val |-> DigitsValue(SubSeq(rest, 1, n))]

---------------------------------------------------------------------------
(* HTTP status codes                                                       *)

INVALID == 0
OK == 200

\* the keys of http::status::REASON_MAP
REASON_MAP ==
    {100, 101, 102, 103,
     200, 201, 202, 203, 204, 205, 206, 207, 208, 226,
     300, 301, 302, 303, 304, 305, 306, 307, 308,
     400, 401, 402, 403, 404, 405, 406, 407, 408, 409, 410, 411, 412, 413,
     414, 415, 416, 417, 418, 421, 422, 423, 424, 425, 426, 428, 429, 431,
     451,
     500, 501, 502, 503, 504, 505,
     INVALID}

\* http::status::fromString
fromString(str) ==
    LET r == strtol(str)
    IN  IF r.tag # "ok" THEN INVALID
        ELSE IF r.val \in REASON_MAP THEN r.val ELSE INVALID

---------------------------------------------------------------------------
(* HttpMessage / HttpResponse                                              *)

VERSION_1_1 == <<"H","T","T","P","/","1",".","1">>
CONNECTION == <<"C","o","n","n","e","c","t","i","o","n">>
CONTENT_LENGTH == <<"C","o","n","t","e","n","t","-","L","e","n","g","t","h">>
KEEP_ALIVE == <<"k","e","e","p","-","a","l","i","v","e">>

EmptyHeaders == [k \in {} |-> <<>>]

\* HttpMessage::getHeader: TRUE iff the optional holds a value
hasHeader(msg, key) == toLower(key) \in DOMAIN msg.headers

\* HttpMessage::getHeader: the value held by the optional
getHeader(msg, key) == msg.headers[toLower(key)]

\* HttpMessage::setHeader storing the key as it is given
setHeaderKeepsCase(msg, key, value) ==
    [msg EXCEPT !.headers =
        [k \in DOMAIN msg.headers \cup {key} |->
            IF k = key THEN value ELSE msg.headers[k]]]

\* HttpMessage::setHeader
setHeader(msg, key, value) ==
    LET lowerKey == toLower(key)
    IN  [msg EXCEPT !.headers =
            [k \in DOMAIN msg.headers \cup {lowerKey} |->
                IF k = lowerKey THEN value ELSE msg.headers[k]]]

\* HttpMessage::removeHeader
removeHeader(msg, key) ==
    LET lowerKey == toLower(key)
    IN  [msg EXCEPT !.headers =
            [k \in DOMAIN msg.headers \ {lowerKey} |-> msg.headers[k]]]

\* HttpMessage::setBody
setBody(msg, body) == [msg EXCEPT !.body = body]

\* HttpResponse::HttpResponse (and HttpMessage::HttpMessage)
HttpResponse ==
    [version   |-> VERSION_1_1,
     headers   |-> EmptyHeaders,
     body      |-> <<>>,
     status    |-> OK,
     keepAlive |-> TRUE]

\* HttpResponse::determineKeepAlive
determineKeepAlive(resp) ==
    IF hasHeader(resp, CONNECTION)
    THEN LET connection == trim(getHeader(resp, CONNECTION))
             lowerValue == toLower(connection)
         IN  [resp EXCEPT !.keepAlive = (lowerValue = KEEP_ALIVE)]
    ELSE resp

\* HttpResponse::parseStartLine taking the text after the first space as the
\* status code when no second space follows
parseStartLineTwoFields(resp, line) ==
    LET versionEnd == Find(line, <<SP>>, 0)
    IN  IF versionEnd = NPOS
        THEN [ok |-> FALSE, resp |-> resp,
              log |-> <<"Malformed start line: Missing space after version.">>]
        ELSE
        LET found         == Find(line, <<SP>>, versionEnd + 1)
            statusCodeEnd == IF found = NPOS THEN Len(line) ELSE found
            code == fromString(Substr(line, versionEnd + 1,
                                      statusCodeEnd - versionEnd - 1))
        IN  IF code = INVALID
            THEN [ok |-> FALSE, resp |-> resp,
                  log |-> <<"Invalid status code.">>]
            ELSE [ok   |-> TRUE,
                  resp |-> [resp EXCEPT !.version = Substr(line, 0, versionEnd),
                                        !.status = code],
                  log  |-> <<>>]

\* HttpResponse::parseStartLine; log is what it hands to the Logger
parseStartLine(resp, line) ==
    LET versionEnd == Find(line, <<SP>>, 0)
    IN  IF versionEnd = NPOS
        THEN [ok |-> FALSE, resp |-> resp,
              log |-> <<"Malformed start line: Missing space after version.">>]
        ELSE
        LET statusCodeEnd == Find(line, <<SP>>, versionEnd + 1)
        IN  IF statusCodeEnd = NPOS
            THEN [ok |-> FALSE, resp |-> resp,
                  log |-> <<"Malformed start line: Missing space after URI.">>]
            ELSE
            LET versionStr    == Substr(line, 0, versionEnd)
                statusCodeStr == Substr(line, versionEnd + 1,
                                        statusCodeEnd - versionEnd - 1)
                code          == fromString(statusCodeStr)
            IN  IF code = INVALID
                THEN [ok |-> FALSE, resp |-> resp,
                      log |-> <<"Invalid status code.">>]
                ELSE [ok   |-> TRUE,
                      resp |-> [resp EXCEPT !.version = versionStr,
                                            !.status = code],
                      log  |-> <<>>]

\* HttpResponse::parseHeaders: the loop from position pos
RECURSIVE parseHeadersFrom(_, _, _)
parseHeadersFrom(resp, headersBlock, pos) ==
    IF ~(pos < Len(headersBlock)) THEN resp
    ELSE
    LET found   == Find(headersBlock, CRLF, pos)
        end     == IF found = NPOS THEN Len(headersBlock) ELSE found
        header  == Substr(headersBlock, pos, end - pos)
        nextPos == IF end = Len(headersBlock) THEN end ELSE end + 2
        separator == Find(header, <<":">>, 0)
    IN  IF header = <<>> \/ separator = NPOS
        THEN parseHeadersFrom(resp, headersBlock, nextPos)
        ELSE
        LET valueStart == FindFirstNotOf(header, {SP}, separator + 1)
            value == IF valueStart # NPOS THEN SubstrFrom(header, valueStart)
                     ELSE <<>>
        IN  parseHeadersFrom(setHeader(resp, Substr(header, 0, separator), value),
                             headersBlock, nextPos)

\* HttpResponse::parseHeaders
parseHeaders(resp, headersBlock) == parseHeadersFrom(resp, headersBlock, 0)

\* HttpResponse::parseBody taking every byte after the delimiter as the body,
\* whatever Content-Length declares
parseBodyTakesRest(resp, rawData, bodyStart) ==
    IF bodyStart < Len(rawData)
    THEN [ok |-> TRUE, resp |-> setBody(resp, SubstrFrom(rawData, bodyStart)),
          log |-> <<>>]
    ELSE [ok |-> TRUE, resp |-> setBody(resp, <<>>), log |-> <<>>]

\* HttpResponse::parseBody taking the bytes that are there when fewer than
\* Content-Length follow the delimiter
parseBodyAcceptsShort(resp, rawData, bodyStart) ==
    IF bodyStart < Len(rawData) /\ hasHeader(resp, CONTENT_LENGTH)
    THEN LET r == strtol(getHeader(resp, CONTENT_LENGTH))
         IN  IF r.tag # "ok"
             THEN [ok |-> FALSE, resp |-> resp,
                   log |-> <<"Invalid Content-Length header.">>]
             ELSE [ok |-> TRUE, log |-> <<>>,
                   resp |-> setBody(resp, Substr(rawData, bodyStart, r.val))]
    ELSE IF bodyStart < Len(rawData)
    THEN [ok |-> TRUE, resp |-> resp, log |-> <<>>]
    ELSE [ok |-> TRUE, resp |-> setBody(resp, <<>>), log |-> <<>>]

\* HttpResponse::parseBody; log is what it hands to the Logger
parseBody(resp, rawData, bodyStart) ==
    IF bodyStart < Len(rawData)
    THEN IF hasHeader(resp, CONTENT_LENGTH)
         THEN LET r == strtol(getHeader(resp, CONTENT_LENGTH))
              IN  IF r.tag = "invalid_argument"
                  THEN [ok |-> FALSE, resp |-> resp,
                        log |-> <<"Invalid Content-Length header.">>]
                  ELSE IF r.tag = "out_of_range"
                  THEN [ok |-> FALSE, resp |-> resp,
                        log |-> <<"Content-Length value out of range.">>]
                  ELSE IF Len(rawData) - bodyStart >= r.val
                  THEN [ok |-> TRUE,
                        resp |-> setBody(resp, Substr(rawData, bodyStart, r.val)),
                        log |-> <<>>]
                  ELSE [ok |-> FALSE, resp |-> resp,
                        log |-> <<"Incomplete response body received.">>]
         ELSE [ok |-> TRUE, resp |-> resp, log |-> <<>>]
    ELSE [ok |-> TRUE, resp |-> setBody(resp, <<>>), log |-> <<>>]

\* HttpResponse::parse; log is what parse and its helpers hand to the Logger
parse(resp, rawData) ==
    LET startLineEnd == Find(rawData, CRLF, 0)
    IN  IF startLineEnd = NPOS
        THEN [ok |-> FALSE, resp |-> resp,
              log |-> <<"Malformed response: Missing start line end.">>]
        ELSE
        LET sl == parseStartLine(resp, Substr(rawData, 0, startLineEnd))
        IN  IF ~sl.ok
            THEN [ok |-> FALSE, resp |-> sl.resp,
                  log |-> sl.log
                          \o <<"Malformed response: Invalid start line.">>]
            ELSE
            LET headersStart == startLineEnd + 2
                headersEnd   == Find(rawData, CRLFCRLF, headersStart)
            IN  IF headersEnd = NPOS
                THEN [ok |-> FALSE, resp |-> sl.resp,
                      log |-> <<"Malformed response: Missing headers end.">>]
                ELSE
                LET headersBlock == Substr(rawData, headersStart,
                                           headersEnd - headersStart)
                    withHeaders  == parseHeaders(sl.resp, headersBlock)
                    withKeep     == determineKeepAlive(withHeaders)
                    bodyStart    == headersEnd + 4
                    body         == parseBody(withKeep, rawData, bodyStart)
                IN  IF ~body.ok
                    THEN [ok |-> FALSE, resp |-> body.resp,
                          log |-> body.log
                                  \o <<"Malformed request: Invalid body.">>]
                    ELSE [ok |-> TRUE, resp |-> body.resp, log |-> <<>>]

---------------------------------------------------------------------------
(* C++ exceptions                                                          *)

NoExc == "none"

\* the base class of each exception type of <stdexcept> / <system_error>
ExceptionBase ==
    [system_error     |-> "runtime_error",
     runtime_error    |-> "exception",
     invalid_argument |-> "logic_error",
     out_of_range     |-> "logic_error",
     logic_error      |-> "exception"]

\* does a handler `catch(const type&)` catch an exception of dynamic type exc
RECURSIVE Catches(_, _)
Catches(type, exc) ==
    \/ exc = type
    \/ /\ exc \in DOMAIN ExceptionBase
       /\ Catches(type, ExceptionBase[exc])

---------------------------------------------------------------------------
(* Transport Socket (Socket), against scripted results of the system calls *)

\* Largest number of interrupted polls in one Socket::connect.
MaxEintr == 1

\* Socket::Socket(domain, type, protocol); ctor is the result of the system
\* calls: "ok", "socket_fail" (::socket < 0) or "setsockopt_fail".
\* opened: a descriptor was opened; exc: the exception thrown, if any.
SocketCtor(ctor) ==
    [opened |-> ctor # "socket_fail",
     exc    |-> IF ctor = "ok" THEN NoExc ELSE "runtime_error"]

CtorResults == {"ok", "socket_fail", "setsockopt_fail"}

\* the socket_fd of a Socket that owns no descriptor
NO_FD == -1

\* Socket::Socket(int socket_fd): adopts the descriptor, throws for a
\* negative one
SocketAdopt(fd) ==
    [exc |-> IF fd < 0 THEN "runtime_error" ELSE NoExc, socket_fd |-> fd]

\* Socket::~Socket: the descriptors it calls close() on
SocketDtor(socket_fd) == IF socket_fd >= 0 THEN {socket_fd} ELSE {}

\* Socket::Socket(Socket&& other): the socket_fd of the new object and of
\* other afterwards
SocketMove(other_fd) == [self |-> other_fd, other |-> NO_FD]

\* Socket::operator=(Socket&& other); same: this == &other.  The socket_fd of
\* *this and of other afterwards, and the descriptors it calls close() on.
SocketMoveAssign(self_fd, other_fd, same) ==
    IF same THEN [self |-> self_fd, other |-> self_fd, closed |-> {}]
    ELSE [self |-> other_fd, other |-> NO_FD,
          closed |-> IF self_fd >= 0 THEN {self_fd} ELSE {}]

\* the time, in milliseconds, that a poll(timeout_ms) had waited when a signal
\* interrupted it
InterruptTimes(timeout_ms) == {timeout_ms \div 2}

\* results of the system calls made by one Socket::connect; interrupts: the
\* waiting times of the polls that a signal interrupted, in order
ConnectEnvsFor(timeout_ms) ==
    LET base == [fcntl |-> "ok", conn |-> "done", interrupts |-> <<>>,
                 poll |-> "ready", soerr |-> "zero"]
        waits == SeqsUpTo(InterruptTimes(timeout_ms), MaxEintr)
    IN  {[base EXCEPT !.fcntl = "fail"], base, [base EXCEPT !.conn = "error"]}
        \cup {[base EXCEPT !.conn = "inprogress", !.interrupts = q, !.poll = p] :
                q \in waits, p \in {"timeout", "error"}}
        \cup {[base EXCEPT !.conn = "inprogress", !.interrupts = q, !.soerr = e] :
                q \in waits, e \in {"zero", "nonzero", "getsockopt_fail"}}

RECURSIVE Sum(_)
Sum(q) == IF q = <<>> THEN 0 ELSE Head(q) + Sum(Tail(q))

\* Socket::connect with a poll that surfaces an interrupt as a poll error
SocketConnectNoRetry(env, timeout_ms) ==
    LET raise(what, calls, waited) ==
            [exc |-> "runtime_error", what |-> what, calls |-> calls,
             waited |-> waited, setNonBlocking |-> TRUE]
    IN  IF env.fcntl = "fail"
        THEN [exc |-> "runtime_error", what |-> "control", calls |-> <<"fcntl">>,
              waited |-> 0, setNonBlocking |-> FALSE]
        ELSE IF env.conn = "done"
        THEN [exc |-> NoExc, what |-> "", calls |-> <<"fcntl", "connect">>,
              waited |-> 0, setNonBlocking |-> TRUE]
        ELSE IF env.conn # "inprogress"
        THEN raise("failed", <<"fcntl", "connect">>, 0)
        ELSE IF env.interrupts # <<>>
        THEN raise("poll", <<"fcntl", "connect", "poll">>, Head(env.interrupts))
        ELSE IF env.poll = "timeout"
        THEN raise("timeout", <<"fcntl", "connect", "poll">>, timeout_ms)
        ELSE IF env.poll = "error"
        THEN raise("poll", <<"fcntl", "connect", "poll">>, 0)
        ELSE IF env.soerr = "getsockopt_fail"
        THEN raise("getsockopt", <<"fcntl", "connect", "poll", "getsockopt">>, 0)
        ELSE IF env.soerr # "zero"
        THEN raise("failed", <<"fcntl", "connect", "poll", "getsockopt">>, 0)
        ELSE [exc |-> NoExc, what |-> "",
              calls |-> <<"fcntl", "connect", "poll", "getsockopt">>,
              waited |-> 0, setNonBlocking |-> TRUE]

\* Socket::connect.  exc: the exception it throws (NoExc when it returns);
\* what: the kind of its message; calls: the system calls made, in order;
\* waited: the milliseconds spent in poll; setNonBlocking: setNonBlocking(true)
\* returned.  Every poll is called with the whole timeout_ms.
SocketConnect(env, timeout_ms) ==
    LET polls == [i \in 1..(Len(env.interrupts) + 1) |-> "poll"]
        upToPoll == <<"fcntl", "connect">> \o polls
        interrupted == Sum(env.interrupts)
        raise(what, calls, waited) ==
            [exc |-> "runtime_error", what |-> what, calls |-> calls,
             waited |-> waited, setNonBlocking |-> TRUE]
    IN  IF env.fcntl = "fail"
        THEN [exc |-> "runtime_error", what |-> "control", calls |-> <<"fcntl">>,
              waited |-> 0, setNonBlocking |-> FALSE]
        ELSE IF env.conn = "done"
        THEN [exc |-> NoExc, what |-> "", calls |-> <<"fcntl", "connect">>,
              waited |-> 0, setNonBlocking |-> TRUE]
        ELSE IF env.conn # "inprogress"
        THEN raise("failed", <<"fcntl", "connect">>, 0)
        ELSE IF env.poll = "timeout"
        THEN raise("timeout", upToPoll, interrupted + timeout_ms)
        ELSE IF env.poll = "error"
        THEN raise("poll", upToPoll, interrupted)
        ELSE IF env.soerr = "getsockopt_fail"
        THEN raise("getsockopt", upToPoll \o <<"getsockopt">>, interrupted)
        ELSE IF env.soerr # "zero"
        THEN raise("failed", upToPoll \o <<"getsockopt">>, interrupted)
        ELSE [exc |-> NoExc, what |-> "", calls |-> upToPoll \o <<"getsockopt">>,
              waited |-> interrupted, setNonBlocking |-> TRUE]

\* results of ::send and ::recv: the return value and errno
Wrote(k) == [ret |-> k, errno |-> "none"]
WriteWouldBlock == [ret |-> -1, errno |-> "EAGAIN"]
WriteFailed == [ret |-> -1, errno |-> "EPIPE"]
Got(bytes) == [ret |-> Len(bytes), errno |-> "none", bytes |-> bytes]
PeerClosed == Got(<<>>)
ReadWouldBlock == [ret |-> -1, errno |-> "EWOULDBLOCK", bytes |-> <<>>]
ReadFailed == [ret |-> -1, errno |-> "ECONNRESET", bytes |-> <<>>]

WouldBlockErrnos == {"EAGAIN", "EWOULDBLOCK"}

\* the range handed to ::send when every call starts at the buffer's start
SocketSendRangeFromStart(buf, totalSent) == Substr(buf, 0, Len(buf) - totalSent)

\* the range `data + totalSent, len - totalSent` handed to ::send
SocketSendRange(buf, totalSent) == SubstrFrom(buf, totalSent)

\* one iteration of Socket::send in which would-block is a fatal error
SocketSendStepWouldBlockFatal(buf, totalSent, bytesSent) ==
    IF bytesSent.ret < 0
    THEN [next |-> "throw", totalSent |-> totalSent, exc |-> "system_error",
          accepted |-> <<>>]
    ELSE [next |-> "loop", totalSent |-> totalSent + bytesSent.ret,
          exc |-> NoExc,
          accepted |-> Substr(SocketSendRange(buf, totalSent), 0, bytesSent.ret)]

\* one iteration of the loop of Socket::send; bytesSent is the result of
\* ::send.  next: "retry" (continue after the pause), "throw", or "loop" (back
\* to the loop condition); accepted: the bytes ::send took from the range.
SocketSendStep(buf, totalSent, bytesSent) ==
    IF bytesSent.ret < 0
    THEN IF bytesSent.errno \in WouldBlockErrnos
         THEN [next |-> "retry", totalSent |-> totalSent, exc |-> NoExc,
               accepted |-> <<>>]
         ELSE [next |-> "throw", totalSent |-> totalSent,
               exc |-> "system_error", accepted |-> <<>>]
    ELSE [next |-> "loop", totalSent |-> totalSent + bytesSent.ret,
          exc |-> NoExc,
          accepted |-> Substr(SocketSendRange(buf, totalSent), 0, bytesSent.ret)]

\* Socket::send over a script of results of ::send.  status "ok": returned
\* total; "throw": threw exc; "blocked": the script ended while the loop was
\* still retrying (the call has not returned).  calls: number of ::send calls;
\* wire: the bytes ::send accepted, in order.
RECURSIVE SocketSendFrom(_, _, _, _, _)
SocketSendFrom(buf, totalSent, writes, calls, wire) ==
    IF ~(totalSent < Len(buf))
    THEN [status |-> "ok", total |-> totalSent, exc |-> NoExc, calls |-> calls,
          wire |-> wire]
    ELSE IF writes = <<>>
    THEN [status |-> "blocked", total |-> totalSent, exc |-> NoExc,
          calls |-> calls, wire |-> wire]
    ELSE LET step == SocketSendStep(buf, totalSent, Head(writes))
         IN  IF step.next = "throw"
             THEN [status |-> "throw", total |-> totalSent, exc |-> step.exc,
                   calls |-> calls + 1, wire |-> wire]
             ELSE SocketSendFrom(buf, step.totalSent, Tail(writes), calls + 1,
                                 wire \o step.accepted)

SocketSend(buf, writes) == SocketSendFrom(buf, 0, writes, 0, <<>>)

\* Socket::recv over the result of its one ::recv call
SocketRecv(read) ==
    IF read.ret < 0 /\ read.errno \notin WouldBlockErrnos
    THEN [exc |-> "system_error", bytesRead |-> read.ret, bytes |-> <<>>]
    ELSE [exc |-> NoExc, bytesRead |-> read.ret, bytes |-> read.bytes]

---------------------------------------------------------------------------
(* Connection Manager.  A manager state w is a record of the object's      *)
(* fields (socket: 0 for a null pointer, else the descriptor of the owned  *)
(* Socket; connected) and of the descriptors' state in the OS (link: state *)
(* of the held socket's TCP connection; nextFd: the next descriptor the OS *)
(* hands out; openFds: the descriptors that are open).                     *)

\* ConnectionManager::ConnectionManager
ConnectionManager ==
    [socket |-> 0, connected |-> FALSE,
     link |-> "none", nextFd |-> 1, openFds |-> {}]

\* connect() timeout in milliseconds
TIMEOUT_MS == 5000
\* size of the receive buffer
BUFFER_SIZE == 131072

\* results of the system calls of the Socket::connect made by connect()
ConnectEnvs == ConnectEnvsFor(TIMEOUT_MS)

\* inet_pton(AF_INET, ...) > 0: four decimal fields of 1..3 digits, each at
\* most 255, separated by single dots
RECURSIVE IsDottedQuad(_, _)
IsDottedQuad(text, fields) ==
    LET dot   == Find(text, <<".">>, 0)
        field == IF dot = NPOS THEN text ELSE Substr(text, 0, dot)
        okField == /\ Len(field) \in 1..3
                   /\ \A i \in 1..Len(field) : IsDigit(field[i])
                   /\ DigitsValue(field) <= 255
    IN  /\ okField
        /\ IF dot = NPOS THEN fields = 1
           ELSE fields > 1 /\ IsDottedQuad(SubstrFrom(text, dot + 1), fields - 1)

inet_pton(host) == IF IsDottedQuad(host, 4) THEN 1 ELSE 0

\* ConnectionManager::disconnect: the descriptors closed by socket.reset(),
\* which destroys the Socket only when the pointer is not null
disconnectCloses(w) == IF w.socket # 0 THEN SocketDtor(w.socket) ELSE {}

\* disconnect that releases the socket and leaves the connected flag alone
disconnectResetOnly(w) ==
    [w EXCEPT !.socket = 0, !.link = "none",
              !.openFds = @ \ disconnectCloses(w)]

\* ConnectionManager::disconnect: socket.reset() runs Socket::~Socket, which
\* closes the descriptor
disconnect(w) ==
    [w EXCEPT !.socket = 0, !.connected = FALSE, !.link = "none",
              !.openFds = @ \ disconnectCloses(w)]

\* the flags of the recv call of isConnected
PEEK_FLAGS == {"MSG_PEEK", "MSG_DONTWAIT"}

\* the number of bytes a recv with these flags takes out of the stream
Consumed(res, flags) ==
    IF "MSG_PEEK" \in flags \/ res.ret < 0 THEN 0 ELSE res.ret

\* isConnected with every negative peek result taken for a broken connection
isConnectedAnyError(w, peek) ==
    IF w.socket = 0 THEN [ret |-> FALSE, w |-> w, consumed |-> 0]
    ELSE LET flag == IF peek.ret = 0 THEN FALSE
                     ELSE IF peek.ret < 0
                     THEN FALSE
                     ELSE w.connected
         IN  [ret |-> flag, w |-> [w EXCEPT !.connected = flag],
              consumed |-> Consumed(peek, PEEK_FLAGS)]

\* ConnectionManager::isConnected; peek is the result of the MSG_PEEK recv
isConnected(w, peek) ==
    IF w.socket = 0 THEN [ret |-> FALSE, w |-> w, consumed |-> 0]
    ELSE LET flag == IF peek.ret = 0 THEN FALSE
                     ELSE IF peek.ret < 0 /\ peek.errno \notin WouldBlockErrnos
                     THEN FALSE
                     ELSE w.connected
         IN  [ret |-> flag, w |-> [w EXCEPT !.connected = flag],
              consumed |-> Consumed(peek, PEEK_FLAGS)]

\* ConnectionManager::pollSocket; pollRet is the result of poll()
pollSocket(w, events, pollRet) ==
    IF w.socket = 0 THEN FALSE
    ELSE IF pollRet <= 0 THEN FALSE
    ELSE TRUE

isWritable(w, pollRet) == pollSocket(w, "POLLOUT", pollRet)
isReadable(w, pollRet) == pollSocket(w, "POLLIN", pollRet)

\* connect without `if(socket) disconnect()`: the old Socket is destroyed
\* by the assignment of the new one
connectAssignOnly(w, host, service, env) ==
    IF host = <<>> \/ service = <<>>
    THEN [ret |-> FALSE, exc |-> NoExc, w |-> w, during |-> w.openFds]
    ELSE
    LET ctor == SocketCtor(env.ctor)
        fd   == w.nextFd
        w2   == IF ctor.opened
                THEN [w EXCEPT !.nextFd = fd + 1, !.openFds = @ \cup {fd}]
                ELSE w
        res(ret, exc, wAfter) ==
            [ret |-> ret, exc |-> exc, w |-> wAfter, during |-> w2.openFds]
    IN  IF ctor.exc # NoExc THEN res(FALSE, ctor.exc, w2)
        ELSE
        LET w3     == [w2 EXCEPT !.socket = fd, !.link = "unconnected",
                                 !.connected = FALSE,
                                 !.openFds = @ \ disconnectCloses(w)]
            portNo == strtol(service)
        IN  IF portNo.tag # "ok" THEN res(FALSE, portNo.tag, w3)
            ELSE IF inet_pton(host) <= 0 THEN res(FALSE, NoExc, w3)
            ELSE
            LET c == SocketConnect(env.sock, TIMEOUT_MS)
            IN  IF c.exc = NoExc
                THEN res(TRUE, NoExc, [w3 EXCEPT !.connected = TRUE,
                                                 !.link = "established"])
                ELSE IF Catches("runtime_error", c.exc)
                THEN res(FALSE, NoExc, w3)
                ELSE res(FALSE, c.exc, w3)

\* ConnectionManager::connect; env.ctor and env.sock are the results of the
\* system calls of Socket::Socket and Socket::connect.
\* ret: the return value; exc: the exception that leaves the call, if any;
\* during: the descriptors open when the Socket constructor has run.
connect(w, host, service, env) ==
    IF host = <<>> \/ service = <<>>
    THEN [ret |-> FALSE, exc |-> NoExc, w |-> w, during |-> w.openFds]
    ELSE
    LET w1   == IF w.socket # 0 THEN disconnect(w) ELSE w
        ctor == SocketCtor(env.ctor)
        fd   == w1.nextFd
        \* the descriptor opened by ::socket, owned or not
        w2   == IF ctor.opened
                THEN [w1 EXCEPT !.nextFd = fd + 1, !.openFds = @ \cup {fd}]
                ELSE w1
        res(ret, exc, wAfter) ==
            [ret |-> ret, exc |-> exc, w |-> wAfter, during |-> w2.openFds]
    IN  IF ctor.exc # NoExc THEN res(FALSE, ctor.exc, w2)
        ELSE
        LET w3     == [w2 EXCEPT !.socket = fd, !.link = "unconnected"]
            portNo == strtol(service)
        IN  IF portNo.tag # "ok" THEN res(FALSE, portNo.tag, w3)
            ELSE IF inet_pton(host) <= 0 THEN res(FALSE, NoExc, w3)
            ELSE
            LET c == SocketConnect(env.sock, TIMEOUT_MS)
            IN  IF c.exc = NoExc
                THEN res(TRUE, NoExc, [w3 EXCEPT !.connected = TRUE,
                                                 !.link = "established"])
                ELSE IF Catches("runtime_error", c.exc)
                THEN res(FALSE, NoExc, w3)
                ELSE res(FALSE, c.exc, w3)

\* ConnectionManager::send; the ssize_t returned by Socket::send converts to
\* bool.  status "blocked": Socket::send has not returned.
send(w, data, writes) ==
    IF w.socket = 0 THEN [status |-> "ok", ret |-> FALSE, exc |-> NoExc]
    ELSE LET r == SocketSend(data, writes)
         IN  [status |-> r.status, ret |-> (r.status = "ok" /\ r.total # 0),
              exc |-> r.exc]

\* std::getline(stream, line): the lines of text, split at LF
RECURSIVE Lines(_)
Lines(text) ==
    IF text = <<>> THEN <<>>
    ELSE LET nl == Find(text, <<LF>>, 0)
         IN  IF nl = NPOS THEN <<text>>
             ELSE <<Substr(text, 0, nl)>> \o Lines(SubstrFrom(text, nl + 1))

\* n_utils::str_manip::parseHeaderValue: [has |-> FALSE] is std::nullopt
parseHeaderValue(headers, key) ==
    LET lines  == Lines(headers)
        prefix == key \o <<":">>
        hits   == {i \in 1..Len(lines) : MatchAt(lines[i], prefix, 0)}
    IN  IF hits = {} THEN [has |-> FALSE, value |-> <<>>]
        ELSE LET first == CHOOSE i \in hits : \A j \in hits : i <= j
             IN  [has |-> TRUE,
                  value |-> trim(SubstrFrom(lines[first], Len(prefix)))]

\* receiveBody with the unreadable case treated like a read of no bytes:
\* the loop is left and the partial body returned
RECURSIVE receiveBodyBreakUnreadable(_, _, _, _, _)
receiveBodyBreakUnreadable(w, headersStr, body, contentLength, scr) ==
    LET done == [has |-> TRUE, data |-> headersStr \o CRLFCRLF \o body,
                 exc |-> NoExc, phase |-> "body", last |-> "complete"]
    IN  IF ~(contentLength > 0 /\ Len(body) < contentLength) THEN done
        ELSE IF scr = <<>> \/ ~isReadable(w, Head(scr).pollRet)
        THEN [done EXCEPT !.last = "unreadable"]
        ELSE LET r == SocketRecv(Head(scr).read)
             IN  IF r.exc # NoExc
                 THEN [has |-> FALSE, data |-> <<>>, exc |-> r.exc,
                       phase |-> "body", last |-> "error"]
                 ELSE IF r.bytesRead <= 0
                 THEN [done EXCEPT !.last =
                          IF r.bytesRead = 0 THEN "closed" ELSE "wouldblock"]
                 ELSE receiveBodyBreakUnreadable(w, headersStr,
                                  body \o Substr(r.bytes, 0, BUFFER_SIZE),
                                  contentLength, Tail(scr))

\* ConnectionManager::receive, body loop; a script is a sequence of
\* [pollRet, read]: the results of the poll() and of the ::recv of one loop
\* iteration.  An exhausted script means that nothing more arrives: the poll
\* times out.  Result: has/data, the optional returned; exc, the exception
\* that leaves the call; phase and last, where and why the reading ended.
RECURSIVE receiveBody(_, _, _, _, _)
receiveBody(w, headersStr, body, contentLength, scr) ==
    LET done == [has |-> TRUE, data |-> headersStr \o CRLFCRLF \o body,
                 exc |-> NoExc, phase |-> "body", last |-> "complete"]
        none == [has |-> FALSE, data |-> <<>>, exc |-> NoExc,
                 phase |-> "body", last |-> "unreadable"]
    IN  IF ~(contentLength > 0 /\ Len(body) < contentLength) THEN done
        ELSE IF scr = <<>> \/ ~isReadable(w, Head(scr).pollRet) THEN none
        ELSE LET r == SocketRecv(Head(scr).read)
             IN  IF r.exc # NoExc
                 THEN [none EXCEPT !.exc = r.exc, !.last = "error"]
                 ELSE IF r.bytesRead <= 0
                 THEN [done EXCEPT !.last =
                          IF r.bytesRead = 0 THEN "closed" ELSE "wouldblock"]
                 ELSE receiveBody(w, headersStr,
                                  body \o Substr(r.bytes, 0, BUFFER_SIZE),
                                  contentLength, Tail(scr))

\* ConnectionManager::receive, from the split of headers and body onwards
receiveSplit(w, data, scr) ==
    LET headerEnd  == Find(data, CRLFCRLF, 0)
        headersStr == Substr(data, 0, headerEnd)
        body       == SubstrFrom(data, headerEnd + 4)
        lowerKey   == toLower(CONTENT_LENGTH)
        contentLengthStr == parseHeaderValue(headersStr, lowerKey)
        parsedLen  == strtol(contentLengthStr.value)
    IN  IF contentLengthStr.has /\ parsedLen.tag = "out_of_range"
        THEN [has |-> FALSE, data |-> <<>>, exc |-> "out_of_range",
              phase |-> "split", last |-> "error"]
        ELSE LET contentLength ==
                     IF contentLengthStr.has /\ parsedLen.tag = "ok"
                     THEN parsedLen.val ELSE 0
             IN  receiveBody(w, headersStr, body, contentLength, scr)

\* ConnectionManager::receive, header loop
RECURSIVE receiveHeaders(_, _, _)
receiveHeaders(w, data, scr) ==
    LET none == [has |-> FALSE, data |-> <<>>, exc |-> NoExc,
                 phase |-> "header", last |-> "unreadable"]
    IN  IF Find(data, CRLFCRLF, 0) # NPOS THEN receiveSplit(w, data, scr)
        ELSE IF scr = <<>> \/ ~isReadable(w, Head(scr).pollRet) THEN none
        ELSE LET r == SocketRecv(Head(scr).read)
             IN  IF r.exc # NoExc
                 THEN [none EXCEPT !.exc = r.exc, !.last = "error"]
                 ELSE IF r.bytesRead <= 0
                 THEN [none EXCEPT !.last =
                          IF r.bytesRead = 0 THEN "closed" ELSE "wouldblock"]
                 ELSE receiveHeaders(w, data \o Substr(r.bytes, 0, BUFFER_SIZE),
                                     Tail(scr))

\* ConnectionManager::receive
receive(w, scr) ==
    IF w.socket = 0
    THEN [has |-> FALSE, data |-> <<>>, exc |-> NoExc,
          phase |-> "header", last |-> "nosocket"]
    ELSE receiveHeaders(w, <<>>, scr)

---------------------------------------------------------------------------
(* Raw responses handed to the parser                                      *)

\* Largest number of header lines in a generated raw response.
MaxHeaders == 2

HeaderLine(key, value) == key \o <<":", SP>> \o value

\* the header fields of the generated responses
HeaderFields ==
    {[key |-> CONNECTION, value |-> KEEP_ALIVE],
     [key |-> <<"C","O","N","N","E","C","T","I","O","N">>,
      value |-> <<"K","e","e","p","-","A","l","i","v","e">>],
     [key |-> toLower(CONNECTION), value |-> KEEP_ALIVE \o <<SP>>],
     [key |-> CONNECTION, value |-> <<"c","l","o","s","e">>],
     [key |-> <<"S">>, value |-> <<"x">>],
     [key |-> CONTENT_LENGTH, value |-> <<"0">>],
     [key |-> CONTENT_LENGTH, value |-> <<"2">>],
     [key |-> toLower(CONTENT_LENGTH), value |-> <<"5">>]}

StartLines ==
    {VERSION_1_1 \o <<SP, "2","0","0", SP, "O","K">>,
     VERSION_1_1 \o <<SP, "4","0","4", SP, "N","F">>,
     VERSION_1_1 \o <<SP, "a","b","c", SP, "O","K">>,
     VERSION_1_1 \o <<SP, "2","0","0">>,
     VERSION_1_1 \o <<SP, "2","0","0","x", SP, "O","K">>,
     VERSION_1_1 \o <<SP, "9","9","9", SP, "O","K">>,
     VERSION_1_1 \o <<SP, "2","0","4", SP>>,
     VERSION_1_1}

Bodies == {<<>>, <<"h","i">>, <<"h","e","l","l","o">>}

\* start line, header lines, blank line, body
RawResponse(startLine, headerLines, body) ==
    startLine \o CRLF
    \o Concat([i \in 1..Len(headerLines) |-> headerLines[i] \o CRLF])
    \o CRLF \o body

---------------------------------------------------------------------------
(* State shared by the specifications                                      *)

\* the manager state as a record, and its assignment to the variables
W == [socket |-> socket, connected |-> connected, link |-> link,
      nextFd |-> nextFd, openFds |-> openFds]

SetW(w) ==
    /\ socket' = w.socket
    /\ connected' = w.connected
    /\ link' = w.link
    /\ nextFd' = w.nextFd
    /\ openFds' = w.openFds

InitW(w) ==
    /\ socket = w.socket
    /\ connected = w.connected
    /\ link = w.link
    /\ nextFd = w.nextFd
    /\ openFds = w.openFds

NoCall == [op |-> "none"]
NoRequest == [method |-> <<>>, uri |-> <<>>, version |-> VERSION_1_1,
              headers |-> EmptyHeaders, body |-> <<>>]

\* no processRequest call is running
InitIdle ==
    /\ pc = "idle"
    /\ ip = <<>>
    /\ port = <<>>
    /\ request = NoRequest
    /\ trace = <<>>
    /\ outcome = "none"
    /\ closeSeen = {}

InitNoParse ==
    /\ raw = <<>>
    /\ response = HttpResponse
    /\ parsed = "fresh"

\* no Socket object exists outside the Connection Manager
NoSend ==
    [status |-> "idle", fd |-> NO_FD, buf |-> <<>>, totalSent |-> 0,
     wire |-> <<>>, writes |-> 0, blocked |-> 0, fatal |-> 0, ret |-> 0,
     exc |-> NoExc]

\* the callers of the Logger: the program's thread, a second thread, and
\* signalHandler
Threads == {"main", "worker"}
Callers == Threads \cup {"signalHandler"}

\* a caller outside the Logger
NotLogging == [at |-> "idle", fn |-> "none", stream |-> "none", n |-> 0,
               exiting |-> FALSE]

\* struct ConfigData and Config::Config()
ConfigData == [debug |-> FALSE]
Config == [configLoaded |-> FALSE, data |-> ConfigData]

\* the state before main has done anything: the InputHandler as constructed,
\* no signal received, std::cin good, the Logger unused, the Config singleton
\* as constructed and getopt at the first argument
InitApp ==
    /\ currentState = "MAIN_MENU"
    /\ previousState = "MAIN_MENU"
    /\ signal_received = 0
    /\ cin = "good"
    /\ logMutex = "free"
    /\ logpc = [c \in Callers |-> NotLogging]
    /\ handler = "none"
    /\ out = <<>>
    /\ config = Config
    /\ optind = 1

InitNoSockets ==
    /\ objs = EmptyBag
    /\ closes = <<>>
    /\ nonblock = {}
    /\ sending = NoSend
    /\ sent = 0
    /\ pending = <<>>
    /\ inbox = <<>>
    /\ InitApp

---------------------------------------------------------------------------
(* ParseSpec: HttpResponse::parse applied to a freshly constructed object  *)

\* the response data is a start line, header fields and a body, put together
\* as RawResponse does; lastCall keeps the parts and what the parser logs
ParseInit ==
    /\ \E sl \in StartLines, fs \in SeqsUpTo(HeaderFields, MaxHeaders),
          b \in Bodies :
          /\ raw = RawResponse(sl, [i \in 1..Len(fs) |->
                                       HeaderLine(fs[i].key, fs[i].value)], b)
          /\ lastCall = [op |-> "parse", startLine |-> sl, fields |-> fs,
                         body |-> b, log |-> <<>>]
    /\ response = HttpResponse
    /\ parsed = "fresh"
    /\ InitW(ConnectionManager)
    /\ InitIdle
    /\ InitNoSockets
    /\ script = <<>>

\* HttpClient::parseResponse: response.parse(responseData) on a new object
ParseCall ==
    /\ parsed = "fresh"
    /\ LET r == parse(response, raw)
       IN  /\ response' = r.resp
           /\ parsed' = IF r.ok THEN "ok" ELSE "fail"
           /\ lastCall' = [lastCall EXCEPT !.log = r.log]
    /\ UNCHANGED <<raw, wvars, prvars, script, sockvars, peervars, appvars>>

ParseNext == ParseCall

ParseSpec == ParseInit /\ [][ParseNext]_vars

\* C1: after a successful parse, isKeepAlive() holds exactly when the response
\* carries a Connection header whose value is "keep-alive" in any letter case;
\* with no Connection header, or with Connection: close, it is false.
C1_KeepAliveIffConnectionHeader ==
    parsed = "ok" =>
        (response.keepAlive <=>
            /\ hasHeader(response, CONNECTION)
            /\ toLower(trim(getHeader(response, CONNECTION))) = KEEP_ALIVE)

---------------------------------------------------------------------------
(* ReceiveSpec: ConnectionManager::receive against scripted system calls   *)

\* Largest number of reads that deliver bytes in one script.
MaxChunks == 3

ReadEvent(bytes) == [pollRet |-> 1, read |-> Got(bytes)]

\* the events that end the delivery: poll timeout, poll error, peer closed,
\* a read that would block, a read error
Terminals ==
    {[pollRet |-> 0, read |-> ReadWouldBlock],
     [pollRet |-> -1, read |-> ReadWouldBlock],
     [pollRet |-> 1, read |-> PeerClosed],
     [pollRet |-> 1, read |-> ReadWouldBlock],
     [pollRet |-> 1, read |-> ReadFailed]}

SetMin(S) == CHOOSE x \in S : \A y \in S : x <= y

\* the reads that deliver stream[start+1 .. c] for the successive cuts c
RECURSIVE ChunksFrom(_, _, _)
ChunksFrom(stream, start, cuts) ==
    IF cuts = {} THEN <<>>
    ELSE LET c == SetMin(cuts)
         IN  <<ReadEvent(SubSeq(stream, start + 1, c))>>
             \o ChunksFrom(stream, c, cuts \ {c})

\* where the peer's segments may end: inside the start line, around the
\* header/body delimiter, inside the body, at the end
CutPoints(stream) ==
    LET d == Find(stream, CRLFCRLF, 0)
    IN  {3, d, d + 2, d + 4, d + 5, Len(stream) - 1, Len(stream)}
        \cap (1..Len(stream))

ContentLengthKeys ==
    {CONTENT_LENGTH, toLower(CONTENT_LENGTH),
     <<"C","O","N","T","E","N","T","-","L","E","N","G","T","H">>}

StatusLineOK == VERSION_1_1 \o <<SP, "2","0","0", SP, "O","K">>

RecvStreams ==
    {RawResponse(StatusLineOK, <<HeaderLine(k, v)>>, <<"h","e","l","l","o">>) :
        k \in ContentLengthKeys, v \in {<<"5">>, <<"3">>, <<"x">>}}
    \cup {RawResponse(StatusLineOK, <<HeaderLine(<<"S">>, <<"x">>)>>, <<"h","i">>),
          RawResponse(StatusLineOK, <<>>, <<>>)}

ScriptsOf(stream) ==
    {ChunksFrom(stream, 0, cuts) \o term :
        cuts \in {c \in SUBSET CutPoints(stream) : Cardinality(c) <= MaxChunks},
        term \in {<<>>} \cup {<<t>> : t \in Terminals}}

Scripts == UNION {ScriptsOf(stream) : stream \in RecvStreams}

\* a manager that holds the connected socket 1
HeldManager ==
    [socket |-> 1, connected |-> TRUE, link |-> "established",
     nextFd |-> 2, openFds |-> {1}]

\* a call of ConnectionManager::receive; a read that reports the peer's close
\* or an error leaves the connection in that state
CMReceive(scr) ==
    LET r == receive(W, scr)
    IN  /\ lastCall' = [op |-> "receive", has |-> r.has, data |-> r.data,
                        exc |-> r.exc, phase |-> r.phase, last |-> r.last,
                        hadSocket |-> (socket # 0)]
        /\ link' = IF r.last = "closed" THEN "peer_closed"
                   ELSE IF r.last = "error" /\ r.phase # "split" THEN "reset"
                   ELSE link
        /\ UNCHANGED <<socket, connected, nextFd, openFds>>

ReceiveInit ==
    /\ \/ InitW(ConnectionManager)
       \/ InitW(HeldManager)
    /\ script \in Scripts
    /\ lastCall = NoCall
    /\ InitIdle
    /\ InitNoParse
    /\ InitNoSockets

ReceiveCall ==
    /\ lastCall.op = "none"
    /\ CMReceive(script)
    /\ UNCHANGED <<prvars, parsevars, script, sockvars, peervars, appvars>>

ReceiveNext == ReceiveCall

ReceiveSpec == ReceiveInit /\ [][ReceiveNext]_vars

\* the events of the longest prefix of a script whose polls report readable
\* and whose reads deliver bytes
RECURSIVE GoodPrefix(_)
GoodPrefix(scr) ==
    IF scr = <<>> \/ Head(scr).pollRet <= 0 \/ Head(scr).read.ret <= 0 THEN <<>>
    ELSE <<Head(scr)>> \o GoodPrefix(Tail(scr))

\* the bytes the peer delivered before the delivery ended
Delivered(scr) ==
    LET good == GoodPrefix(scr)
    IN  Concat([i \in 1..Len(good) |-> good[i].read.bytes])

\* the header fields of a delivered message, keys compared in any letter case
DeliveredHeaders(bytes) ==
    LET d   == Find(bytes, CRLFCRLF, 0)
        sle == Find(bytes, CRLF, 0)
    IN  IF d = NPOS \/ d = sle THEN HttpResponse
        ELSE parseHeaders(HttpResponse, Substr(bytes, sle + 2, d - sle - 2))

\* the message declares a body length: a Content-Length header, in any
\* capitalisation, whose value is an unsigned integer
DeclaresLength(bytes) ==
    /\ Find(bytes, CRLFCRLF, 0) # NPOS
    /\ hasHeader(DeliveredHeaders(bytes), CONTENT_LENGTH)
    /\ strtol(getHeader(DeliveredHeaders(bytes), CONTENT_LENGTH)).tag = "ok"

DeclaredLength(bytes) ==
    strtol(getHeader(DeliveredHeaders(bytes), CONTENT_LENGTH)).val

\* C6: when the header block carries a Content-Length header, in any
\* capitalisation, with an unsigned value N, and the peer delivers the headers
\* and N body bytes over several reads, receive returns a message that
\* contains the full N-byte body.
C6_ReceiveReadsDeclaredBody ==
    (/\ lastCall.op = "receive"
     /\ lastCall.hadSocket
     /\ DeclaresLength(Delivered(script))
     /\ Len(Delivered(script)) >=
            Find(Delivered(script), CRLFCRLF, 0) + 4
            + DeclaredLength(Delivered(script)))
    => LET full == Find(Delivered(script), CRLFCRLF, 0) + 4
                   + DeclaredLength(Delivered(script))
       IN  /\ lastCall.has
           /\ Len(lastCall.data) >= full
           /\ Substr(lastCall.data, 0, full) = Substr(Delivered(script), 0, full)

\* C7 as stated: in the body phase, when the socket becomes unreadable before
\* the body reaches Content-Length, receive returns the headers, the delimiter
\* and the body bytes accumulated so far: a non-empty result, not an error.
C7_UnreadableReturnsPartial ==
    (/\ lastCall.op = "receive"
     /\ lastCall.phase = "body"
     /\ lastCall.last = "unreadable")
    => /\ lastCall.has
       /\ lastCall.exc = NoExc
       /\ lastCall.data = Delivered(script)

\* C7 (amended): in the body phase, before the body reaches Content-Length,
\* a poll that reports the socket not readable makes receive return empty,
\* without an exception; a read of no bytes (peer closed, or would-block)
\* makes it return the headers, the delimiter and the body bytes accumulated
\* so far: a non-empty result, not an error.
C7_BodyPhaseStop ==
    (lastCall.op = "receive" /\ lastCall.phase = "body") =>
        /\ lastCall.last = "unreadable" =>
              ~lastCall.has /\ lastCall.exc = NoExc
        /\ lastCall.last \in {"closed", "wouldblock"} =>
              /\ lastCall.has
              /\ lastCall.exc = NoExc
              /\ lastCall.data = Delivered(script)
              /\ lastCall.data # <<>>

\* the body loop gave up on an unreadable socket with part of the declared
\* body already accumulated
C7_Witness ==
    /\ lastCall.op = "receive"
    /\ lastCall.phase = "body"
    /\ lastCall.last = "unreadable"
    /\ Len(Delivered(script)) > Find(Delivered(script), CRLFCRLF, 0) + 4

\* C8: in the header phase, when the socket becomes unreadable, a read fails
\* with any error or the peer closes before CR LF CR LF has been accumulated,
\* receive returns empty and raises nothing; also when no socket is held.
C8_HeaderPhaseFailureReturnsEmpty ==
    (/\ lastCall.op = "receive"
     /\ \/ ~lastCall.hadSocket
        \/ Find(Delivered(script), CRLFCRLF, 0) = NPOS)
    => ~lastCall.has /\ lastCall.exc = NoExc

---------------------------------------------------------------------------
(* HttpRequest and its serialization                                       *)

GET == <<"G","E","T">>
POST == <<"P","O","S","T">>
CLOSE == <<"c","l","o","s","e">>

\* the values of enum class http::method::Method
Method ==
    {"GET", "POST", "PUT", "DELETE", "HEAD", "OPTIONS", "TRACE", "CONNECT",
     "INVALID"}

\* http::method::METHOD_MAP
METHOD_MAP ==
    [GET     |-> GET,
     POST    |-> POST,
     PUT     |-> <<"P","U","T">>,
     DELETE  |-> <<"D","E","L","E","T","E">>,
     HEAD    |-> <<"H","E","A","D">>,
     OPTIONS |-> <<"O","P","T","I","O","N","S">>,
     TRACE   |-> <<"T","R","A","C","E">>,
     CONNECT |-> <<"C","O","N","N","E","C","T">>]

\* http::method::toString
methodToString(method) ==
    IF method \in DOMAIN METHOD_MAP THEN METHOD_MAP[method]
    ELSE <<"I","N","V","A","L","I","D">>

\* HttpRequest::getStatusLine
getStatusLine(req) == req.method \o <<SP>> \o req.uri \o <<SP>> \o req.version

\* the orders in which the keys of an unordered_map may be iterated
RECURSIVE Orders(_)
Orders(keys) ==
    IF keys = {} THEN {<<>>}
    ELSE UNION {{<<k>> \o rest : rest \in Orders(keys \ {k})} : k \in keys}

\* HttpClient::serializeRequest writing the blank line only in front of a body
serializeRequestNoBlankLine(req, order) ==
    getStatusLine(req) \o CRLF
    \o Concat([i \in 1..Len(order) |->
                  order[i] \o <<":", SP>> \o req.headers[order[i]] \o CRLF])
    \o (IF req.body # <<>> THEN CRLF \o req.body ELSE <<>>)

\* HttpClient::serializeRequest, iterating the headers in the given order
serializeRequest(req, order) ==
    getStatusLine(req) \o CRLF
    \o Concat([i \in 1..Len(order) |->
                  order[i] \o <<":", SP>> \o req.headers[order[i]] \o CRLF])
    \o CRLF
    \o (IF req.body # <<>> THEN req.body ELSE <<>>)

\* HttpRequest::setMethod and setURI
setMethod(req, method) == [req EXCEPT !.method = methodToString(method)]
setURI(req, uri) == [req EXCEPT !.uri = uri]

\* the requests handed to processRequest
Requests ==
    {setHeader(setURI(setMethod(NoRequest, "GET"), <<"/">>), CONNECTION, KEEP_ALIVE),
     setHeader(setHeader(setBody(setURI(setMethod(NoRequest, "POST"), <<"/">>),
                                 <<"x">>),
                         CONTENT_LENGTH, <<"1">>),
               CONNECTION, CLOSE)}

SerializedRequests ==
    UNION {{serializeRequest(req, order) : order \in Orders(DOMAIN req.headers)} :
            req \in Requests}

---------------------------------------------------------------------------
(* Spec: calls on the Connection Manager and processRequest, against a     *)
(* peer and an operating system that answer within the bounds below        *)

\* Largest number of sockets created in one behaviour.
MaxSockets == 2

Hosts == {<<>>, <<"1",".","2",".","3",".","4">>, <<"h">>}
Services == {<<>>, <<"8","0">>, <<"p">>}

\* the results of the system calls of one ConnectionManager::connect
ConnectInputs ==
    {[ctor |-> c, sock |-> e] : c \in CtorResults \ {"ok"},
                                e \in {CHOOSE x \in ConnectEnvs : x.fcntl = "fail"}}
    \cup {[ctor |-> "ok", sock |-> e] : e \in ConnectEnvs}

\* the host and port handed to processRequest
Targets ==
    {<<h, s>> \in Hosts \X Services : h = <<"1",".","2",".","3",".","4">> \/ s = <<"8","0">>}

\* the results the MSG_PEEK recv of isConnected can have in each TCP state
PeekResults(l) ==
    CASE l = "established" -> {Got(<<"x">>), ReadWouldBlock}
      [] l = "peer_closed" -> {PeerClosed, Got(<<"x">>)}
      [] OTHER             -> {ReadFailed}

\* the results the ::send calls of one Socket::send can have
WriteScripts(l, len) ==
    IF l \in {"established", "peer_closed"}
    THEN {<<Wrote(len)>>, <<Wrote(1), Wrote(len - 1)>>,
          <<WriteWouldBlock, Wrote(len)>>, <<Wrote(1), WriteWouldBlock, Wrote(len - 1)>>,
          <<Wrote(1), WriteFailed>>, <<WriteFailed>>}
    ELSE {<<WriteFailed>>}

\* the responses the peer sends
PeerResponses ==
    {RawResponse(StatusLineOK,
                 <<HeaderLine(CONNECTION, KEEP_ALIVE),
                   HeaderLine(toLower(CONTENT_LENGTH), <<"2">>)>>, <<"h","i">>),
     RawResponse(StatusLineOK, <<HeaderLine(CONNECTION, CLOSE)>>, <<"h","i">>),
     RawResponse(StatusLineOK, <<HeaderLine(<<"S">>, <<"x">>)>>, <<>>),
     RawResponse(VERSION_1_1 \o <<SP, "a","b","c", SP, "O","K">>,
                 <<HeaderLine(CONNECTION, CLOSE)>>, <<>>),
     RawResponse(StatusLineOK,
                 <<HeaderLine(toLower(CONTENT_LENGTH), <<"5">>)>>, <<"h","i">>)}

\* the results the poll/recv calls of one receive can have
ReadScripts(l) ==
    IF l \in {"established", "peer_closed"}
    THEN LET ends == {<<t>> : t \in {[pollRet |-> 1, read |-> PeerClosed],
                                     [pollRet |-> 1, read |-> ReadFailed]}}
                     \cup (IF l = "established" THEN {<<>>} ELSE {})
         IN  UNION {{ChunksFrom(r, 0, cuts) \o term :
                        cuts \in {{Len(r)},
                                  {Find(r, CRLFCRLF, 0) + 4, Len(r)} \ {0},
                                  {3}},
                        term \in ends} : r \in PeerResponses}
    ELSE {<<>>, <<[pollRet |-> 1, read |-> ReadFailed]>>}

\* the calls made outside processRequest leave no processRequest trace
NoTrace ==
    /\ trace' = <<>>
    /\ outcome' = "none"
    /\ UNCHANGED <<pc, ip, port, request, closeSeen, parsevars, script, sockvars, peervars, appvars>>

\* a call of ConnectionManager::isConnected
CMIsConnected(peek) ==
    LET r == isConnected(W, peek)
    IN  /\ SetW(r.w)
        /\ lastCall' = [op |-> "isConnected", ret |-> r.ret, exc |-> NoExc,
                        hadSocket |-> (socket # 0), peek |-> peek,
                        flagBefore |-> connected, consumed |-> r.consumed]

\* the text is an unsigned decimal number
IsNumber(text) == text # <<>> /\ \A i \in 1..Len(text) : IsDigit(text[i])

\* the address handed to connect: "empty" when a part is missing,
\* "unconvertible" when the IP text is not a dotted quad or the port text is
\* not a number, else "ok"
AddressKind(host, service) ==
    IF host = <<>> \/ service = <<>> THEN "empty"
    ELSE IF ~IsDottedQuad(host, 4) \/ ~IsNumber(service) THEN "unconvertible"
    ELSE "ok"

\* a call of ConnectionManager::connect
CMConnect(host, service, env) ==
    LET r == connect(W, host, service, env)
    IN  /\ nextFd <= MaxSockets
        /\ SetW(r.w)
        /\ lastCall' = [op |-> "connect", ret |-> r.ret, exc |-> r.exc,
                        hadSocket |-> (socket # 0), held |-> socket,
                        address |-> AddressKind(host, service),
                        ctor |-> env.ctor, during |-> r.during]

\* a call of ConnectionManager::disconnect
CMDisconnect ==
    /\ SetW(disconnect(W))
    /\ lastCall' = [op |-> "disconnect", ret |-> TRUE, exc |-> NoExc,
                    hadSocket |-> (socket # 0), held |-> socket,
                    closed |-> disconnectCloses(W),
                    openBefore |-> openFds]

\* a call of ConnectionManager::send that returns or throws
CMSend(data, writes) ==
    LET r == send(W, data, writes)
        s == SocketSend(data, writes)
    IN  /\ r.status # "blocked"
        /\ lastCall' = [op |-> "send", ret |-> r.ret, exc |-> r.exc,
                        hadSocket |-> (socket # 0),
                        allSent |-> (s.status = "ok" /\ s.total = Len(data))]
        /\ UNCHANGED wvars

\* a call of ConnectionManager::isReadable or isWritable
CMPoll(events, pollRet) ==
    /\ lastCall' = [op |-> IF events = "POLLIN" THEN "isReadable" ELSE "isWritable",
                    ret |-> pollSocket(W, events, pollRet), exc |-> NoExc,
                    hadSocket |-> (socket # 0)]
    /\ UNCHANGED wvars

\* InputHandler::checkConnection / clearConnection and any other caller:
\* the Connection Manager's operations called outside processRequest
DirectIsConnected ==
    /\ pc = "idle"
    /\ \E peek \in PeekResults(link) : CMIsConnected(peek)
    /\ NoTrace

DirectConnect ==
    /\ pc = "idle"
    /\ \E host \in Hosts, service \in Services, env \in ConnectInputs :
          CMConnect(host, service, env)
    /\ NoTrace

DirectDisconnect ==
    /\ pc = "idle"
    /\ CMDisconnect
    /\ NoTrace

DirectSend ==
    /\ pc = "idle"
    /\ \E data \in SerializedRequests :
          \E writes \in WriteScripts(link, Len(data)) : CMSend(data, writes)
    /\ NoTrace

DirectReceive ==
    /\ pc = "idle"
    /\ \E scr \in ReadScripts(link) : CMReceive(scr)
    /\ NoTrace

DirectPoll ==
    /\ pc = "idle"
    /\ \E events \in {"POLLIN", "POLLOUT"}, pollRet \in {-1, 0, 1} :
          CMPoll(events, pollRet)
    /\ NoTrace

\* the peer closes its end of the connection
PeerClose ==
    /\ link = "established"
    /\ link' = "peer_closed"
    /\ lastCall' = [op |-> "peer"]
    /\ UNCHANGED <<socket, connected, nextFd, openFds, prvars, parsevars,
                   script, sockvars, peervars, appvars>>

\* the connection is reset
PeerReset ==
    /\ link \in {"established", "peer_closed"}
    /\ link' = "reset"
    /\ lastCall' = [op |-> "peer"]
    /\ UNCHANGED <<socket, connected, nextFd, openFds, prvars, parsevars,
                   script, sockvars, peervars, appvars>>

---------------------------------------------------------------------------
(* HttpClient::processRequest, one action per call it makes                *)

Last(q) == q[Len(q)]

\* the entry of the trace for one call: its name, whether it succeeded (it
\* returned true / data), the exception that left it, the socket held after
Entry(step, ok, exc, fd) == [step |-> step, ok |-> ok, exc |-> exc, fd |-> fd]

\* a catch clause for std::runtime_error only
processRequestCatchRuntimeError(exc) ==
    IF Catches("runtime_error", exc) THEN "returned" ELSE "propagated"

\* the catch clause of processRequest: catch(const std::exception&)
processRequestCatch(exc) ==
    IF Catches("exception", exc) THEN "returned" ELSE "propagated"

\* processRequest is left: by a return, or by the exception exc
Leave(exc) ==
    /\ pc' = "idle"
    /\ outcome' = IF exc = NoExc THEN "returned" ELSE processRequestCatch(exc)
    /\ ip' = <<>>
    /\ port' = <<>>
    /\ request' = NoRequest

\* processRequest goes on to its next call
Goto(next) ==
    /\ pc' = next
    /\ UNCHANGED <<outcome, ip, port, request>>

\* processRequest is called; `!connMgr.isConnected()`
PRIsConnected ==
    /\ pc = "idle"
    /\ \E req \in Requests, target \in Targets :
          /\ request' = req
          /\ ip' = target[1]
          /\ port' = target[2]
    /\ \E peek \in PeekResults(link) : CMIsConnected(peek)
    /\ trace' = <<Entry("isConnected", lastCall'.ret, NoExc, socket')>>
    /\ pc' = IF lastCall'.ret THEN "send" ELSE "connect"
    /\ outcome' = "running"
    /\ raw' = <<>>
    /\ response' = HttpResponse
    /\ parsed' = "fresh"
    /\ UNCHANGED <<closeSeen, script, sockvars, peervars, appvars>>

\* `!connMgr.connect(ip, port)`: log and return when it fails
PRConnect ==
    /\ pc = "connect"
    /\ \E env \in ConnectInputs : CMConnect(ip, port, env)
    /\ trace' = Append(trace, Entry("connect",
                                    lastCall'.ret /\ lastCall'.exc = NoExc,
                                    lastCall'.exc, socket'))
    /\ IF lastCall'.exc = NoExc /\ lastCall'.ret
       THEN Goto("send")
       ELSE Leave(lastCall'.exc)
    /\ UNCHANGED <<closeSeen, parsevars, script, sockvars, peervars, appvars>>

\* serializeRequest and `!connMgr.send(requestData)`: log and return when it
\* fails
PRSend ==
    /\ pc = "send"
    /\ \E order \in Orders(DOMAIN request.headers) :
          LET requestData == serializeRequest(request, order)
          IN  \E writes \in WriteScripts(link, Len(requestData)) :
                  CMSend(requestData, writes)
    /\ trace' = Append(trace, Entry("send",
                                    lastCall'.ret /\ lastCall'.exc = NoExc,
                                    lastCall'.exc, socket'))
    /\ IF lastCall'.exc = NoExc /\ lastCall'.ret
       THEN Goto("receive")
       ELSE Leave(lastCall'.exc)
    /\ UNCHANGED <<closeSeen, parsevars, script, sockvars, peervars, appvars>>

\* PRReceive without the early return: the parser runs on an empty optional
PRReceiveGoesOn ==
    /\ pc = "receive"
    /\ \E scr \in ReadScripts(link) : CMReceive(scr)
    /\ trace' = Append(trace, Entry("receive",
                                    lastCall'.has /\ lastCall'.exc = NoExc,
                                    lastCall'.exc, socket'))
    /\ IF lastCall'.exc = NoExc
       THEN Goto("parse") /\ raw' = lastCall'.data
       ELSE Leave(lastCall'.exc) /\ raw' = raw
    /\ UNCHANGED <<closeSeen, response, parsed, script, sockvars, peervars, appvars>>

\* `connMgr.receive()`: log and return when it holds no value
PRReceive ==
    /\ pc = "receive"
    /\ \E scr \in ReadScripts(link) : CMReceive(scr)
    /\ trace' = Append(trace, Entry("receive",
                                    lastCall'.has /\ lastCall'.exc = NoExc,
                                    lastCall'.exc, socket'))
    /\ IF lastCall'.exc = NoExc /\ lastCall'.has
       THEN Goto("parse") /\ raw' = lastCall'.data
       ELSE Leave(lastCall'.exc) /\ raw' = raw
    /\ UNCHANGED <<closeSeen, response, parsed, script, sockvars, peervars, appvars>>

\* parseResponse(responseData.value()): parse into a new HttpResponse, throw
\* std::runtime_error when parse returns false
PRParse ==
    /\ pc = "parse"
    /\ LET r == parse(HttpResponse, raw)
       IN  /\ response' = r.resp
           /\ parsed' = IF r.ok THEN "ok" ELSE "fail"
           /\ trace' = Append(trace,
                  Entry("parse", r.ok,
                        IF r.ok THEN NoExc ELSE "runtime_error", socket))
           /\ IF r.ok
              THEN /\ Goto("keepalive")
                   /\ closeSeen' = IF r.resp.keepAlive THEN closeSeen
                                   ELSE closeSeen \cup {socket}
              ELSE Leave("runtime_error") /\ closeSeen' = closeSeen
    /\ UNCHANGED <<wvars, raw, lastCall, script, sockvars, peervars, appvars>>

\* PRKeepAlive without the disconnect
PRKeepAliveKeepsSocket ==
    /\ pc = "keepalive"
    /\ UNCHANGED <<wvars, lastCall, trace>>
    /\ Leave(NoExc)
    /\ UNCHANGED <<closeSeen, parsevars, script, sockvars, peervars, appvars>>

\* `if(!response.isKeepAlive()) connMgr.disconnect();` and the return
PRKeepAlive ==
    /\ pc = "keepalive"
    /\ IF ~response.keepAlive
       THEN /\ CMDisconnect
            /\ trace' = Append(trace, Entry("disconnect", TRUE, NoExc, socket'))
       ELSE UNCHANGED <<wvars, lastCall, trace>>
    /\ Leave(NoExc)
    /\ UNCHANGED <<closeSeen, parsevars, script, sockvars, peervars, appvars>>

Init ==
    /\ InitW(ConnectionManager)
    /\ InitIdle
    /\ InitNoParse
    /\ InitNoSockets
    /\ lastCall = NoCall
    /\ script = <<>>

\* processRequest, and the InputHandler's own connect (checkConnection,
\* sendAndValidate) and disconnect (clearConnection) between two requests
Next ==
    \/ PRIsConnected
    \/ PRConnect
    \/ PRSend
    \/ PRReceive
    \/ PRParse
    \/ PRKeepAlive
    \/ DirectConnect
    \/ DirectDisconnect
    \/ PeerClose
    \/ PeerReset

Spec == Init /\ [][Next]_vars

\* ManagerSpec: any sequence of calls on the Connection Manager
ManagerNext ==
    \/ DirectIsConnected
    \/ DirectConnect
    \/ DirectDisconnect
    \/ DirectSend
    \/ DirectReceive
    \/ DirectPoll
    \/ PeerClose
    \/ PeerReset

ManagerSpec == Init /\ [][ManagerNext]_vars

---------------------------------------------------------------------------
(* SocketSpec: Socket objects constructed, moved, used and destroyed, with *)
(* Socket::send taken one ::send call at a time                            *)

\* Largest number of Socket objects alive at a time.
MaxObjects == 2
\* Largest number of descriptors opened in one behaviour.
MaxDescriptors == 2
\* The would-block results of one Socket::send are counted up to this value.
MaxRetries == 2

\* a Socket object whose socket_fd is fd
Object(fd) == SetToBag({fd})

\* there is room for one more Socket object
RoomForObject == BagCardinality(objs) < MaxObjects

\* the buffers handed to Socket::send
SendBuffers == {<<>>, <<"a", "b", "c">>}

\* the results ::send can have for a request of n bytes on descriptor fd
WriteResults(fd, n) ==
    IF fd < 0 THEN {[ret |-> -1, errno |-> "EBADF"]}
    ELSE {Wrote(k) : k \in 1..n}
         \cup {WriteWouldBlock, [ret |-> -1, errno |-> "EWOULDBLOCK"], WriteFailed}

\* the results ::recv can have on descriptor fd
ReadResults(fd) ==
    IF fd < 0 THEN {[ret |-> -1, errno |-> "EBADF", bytes |-> <<>>]}
    ELSE {Got(<<"x", "y">>), PeerClosed, ReadWouldBlock,
          [ret |-> -1, errno |-> "EAGAIN", bytes |-> <<>>], ReadFailed}

\* the results the system calls of Socket::connect can have on descriptor fd
ConnectResults(fd) ==
    IF fd < 0 THEN {env \in ConnectEnvs : env.fcntl = "fail"} ELSE ConnectEnvs

\* the operating system opens the next descriptor
OpenDescriptor ==
    /\ nextFd' = nextFd + 1
    /\ openFds' = openFds \cup {nextFd}
    /\ closes' = Append(closes, 0)

\* close(fd) for each fd of fds
CloseDescriptors(fds) ==
    /\ nextFd' = nextFd
    /\ openFds' = openFds \ fds
    /\ closes' = [fd \in DOMAIN closes |->
                     IF fd \in fds THEN closes[fd] + 1 ELSE closes[fd]]
    /\ nonblock' = nonblock \ fds

\* no Socket::send is running; the other variables are those of the manager
\* and of processRequest
Quiet == sending.status # "running"
SocketFrame ==
    UNCHANGED <<socket, connected, link, prvars, parsevars, script, peervars, appvars>>

\* Socket(domain, type, protocol): when the constructor throws no object
\* exists and no destructor runs
SockCreate ==
    /\ Quiet
    /\ nextFd <= MaxDescriptors
    /\ RoomForObject
    /\ \E ctor \in CtorResults :
          LET r == SocketCtor(ctor)
          IN  /\ IF r.opened THEN OpenDescriptor
                 ELSE UNCHANGED <<nextFd, openFds, closes>>
              /\ objs' = IF r.exc = NoExc THEN objs (+) Object(nextFd) ELSE objs
              /\ lastCall' = [op |-> "Socket", exc |-> r.exc,
                              opened |-> r.opened]
    /\ nonblock' = nonblock
    /\ sending' = NoSend
    /\ SocketFrame

\* Socket(socket_fd) on a descriptor the caller has just opened, or on -1
SockAdopt ==
    /\ Quiet
    /\ nextFd <= MaxDescriptors
    /\ RoomForObject
    /\ \E fd \in {NO_FD, nextFd} :
          LET r == SocketAdopt(fd)
          IN  /\ IF fd >= 0 THEN OpenDescriptor
                 ELSE UNCHANGED <<nextFd, openFds, closes>>
              /\ objs' = IF r.exc = NoExc THEN objs (+) Object(r.socket_fd)
                         ELSE objs
              /\ lastCall' = [op |-> "Socket(fd)", exc |-> r.exc,
                              opened |-> (fd >= 0)]
    /\ nonblock' = nonblock
    /\ sending' = NoSend
    /\ SocketFrame

\* Socket(Socket&& other)
SockMoveConstruct ==
    /\ Quiet
    /\ RoomForObject
    /\ \E other \in BagToSet(objs) :
          LET r == SocketMove(other)
          IN  objs' = (objs (-) Object(other)) (+) Object(r.other)
                      (+) Object(r.self)
    /\ lastCall' = [op |-> "Socket(Socket&&)", exc |-> NoExc]
    /\ sending' = NoSend
    /\ UNCHANGED <<nextFd, openFds, closes, nonblock>>
    /\ SocketFrame

\* operator=(Socket&& other) on two objects, or on an object and itself
SockMoveAssign ==
    /\ Quiet
    /\ \E self \in BagToSet(objs), other \in BagToSet(objs), same \in BOOLEAN :
          LET r == SocketMoveAssign(self, other, same)
          IN  /\ same => self = other
              /\ ~same => (self # other \/ CopiesIn(self, objs) > 1)
              /\ objs' = IF same THEN objs
                         ELSE (objs (-) Object(self) (-) Object(other))
                              (+) Object(r.self) (+) Object(r.other)
              /\ CloseDescriptors(r.closed)
    /\ lastCall' = [op |-> "operator=", exc |-> NoExc]
    /\ sending' = NoSend
    /\ SocketFrame

\* ~Socket()
SockDestroy ==
    /\ Quiet
    /\ \E fd \in BagToSet(objs) :
          /\ CloseDescriptors(SocketDtor(fd))
          /\ objs' = objs (-) Object(fd)
    /\ lastCall' = [op |-> "~Socket", exc |-> NoExc]
    /\ sending' = NoSend
    /\ SocketFrame

\* Socket::connect(server_addr, addrlen, timeout_ms)
SockConnect ==
    /\ Quiet
    /\ \E fd \in BagToSet(objs) :
          \E env \in ConnectResults(fd) :
             LET r == SocketConnect(env, TIMEOUT_MS)
             IN  /\ nonblock' = IF r.setNonBlocking
                                THEN nonblock \cup {fd} ELSE nonblock
                 /\ lastCall' = [op |-> "Socket::connect", exc |-> r.exc,
                                 what |-> r.what, calls |-> r.calls,
                                 waited |-> r.waited, env |-> env,
                                 fd |-> fd, timeout_ms |-> TIMEOUT_MS,
                                 wasNonBlocking |-> (fd \in nonblock)]
    /\ sending' = NoSend
    /\ UNCHANGED <<nextFd, openFds, closes, objs>>
    /\ SocketFrame

\* Socket::recv(buf, len, flags)
SockRecv ==
    /\ Quiet
    /\ \E fd \in BagToSet(objs) :
          \E read \in ReadResults(fd) :
             LET r == SocketRecv(read)
             IN  lastCall' = [op |-> "Socket::recv", exc |-> r.exc,
                              ret |-> r.bytesRead, read |-> read]
    /\ sending' = NoSend
    /\ UNCHANGED <<nextFd, openFds, closes, objs, nonblock>>
    /\ SocketFrame

\* Socket::send(buf, len, flags) is called: totalSent = 0 and the loop
\* condition is tested
SockSendBegin ==
    /\ Quiet
    /\ \E fd \in BagToSet(objs), buf \in SendBuffers :
          sending' = [NoSend EXCEPT
                         !.status = IF 0 < Len(buf) THEN "running" ELSE "returned",
                         !.fd = fd, !.buf = buf]
    /\ lastCall' = [op |-> "Socket::send", exc |-> NoExc]
    /\ UNCHANGED <<nextFd, openFds, closes, objs, nonblock>>
    /\ SocketFrame

\* one iteration of the loop of Socket::send, ::send returning bytesSent, and
\* the test of the loop condition that follows it
SockSendStepWith(bytesSent) ==
    LET step == SocketSendStep(sending.buf, sending.totalSent, bytesSent)
        status == IF step.next = "throw" THEN "thrown"
                  ELSE IF step.totalSent < Len(sending.buf) THEN "running"
                  ELSE "returned"
    IN  /\ sending.status = "running"
        /\ sending' = [sending EXCEPT
               !.status = status,
               !.totalSent = step.totalSent,
               !.wire = @ \o step.accepted,
               !.writes = IF bytesSent.ret >= 0 THEN @ + 1 ELSE @,
               !.blocked = IF bytesSent.ret < 0
                              /\ bytesSent.errno \in WouldBlockErrnos
                           THEN Min(@ + 1, MaxRetries) ELSE @,
               !.fatal = IF bytesSent.ret < 0
                            /\ bytesSent.errno \notin WouldBlockErrnos
                         THEN @ + 1 ELSE @,
               !.ret = IF status = "returned" THEN step.totalSent ELSE 0,
               !.exc = step.exc]
        /\ UNCHANGED <<lastCall, nextFd, openFds, closes, objs, nonblock>>
        /\ SocketFrame

SockSendStep ==
    \E bytesSent \in WriteResults(sending.fd,
                                  Len(sending.buf) - sending.totalSent) :
        SockSendStepWith(bytesSent)

\* an iteration in which ::send does not report would-block
SockSendProgress ==
    \E bytesSent \in WriteResults(sending.fd,
                                  Len(sending.buf) - sending.totalSent) :
        /\ ~(bytesSent.ret < 0 /\ bytesSent.errno \in WouldBlockErrnos)
        /\ SockSendStepWith(bytesSent)

SocketNext ==
    \/ SockCreate
    \/ SockAdopt
    \/ SockMoveConstruct
    \/ SockMoveAssign
    \/ SockDestroy
    \/ SockConnect
    \/ SockRecv
    \/ SockSendBegin
    \/ SockSendStep

SocketSpec == Init /\ [][SocketNext]_vars

\* The loop of Socket::send has no exit but the return and the throw and
\* calls ::send again after every would-block; the write primitive does not
\* report would-block forever.
SocketLiveSpec == SocketSpec /\ WF_vars(SockSendProgress)

---------------------------------------------------------------------------
(* KeepAliveSpec: processRequest called again and again on one connection  *)
(* to a server that answers the requests it has received in order, each    *)
(* after a delay of its own choosing.  Request number n asks for "/n" and   *)
(* its response carries the body "n".                                      *)

\* Largest number of processRequest calls in one behaviour.
MaxRequests == 3

KeepAliveTarget == <<<<"1",".","2",".","3",".","4">>, <<"8","0">>>>

\* the request of the n-th call, and the server's response to it
RequestNo(n) ==
    setHeader(setURI(setMethod(NoRequest, "GET"), <<"/", Digits[n + 1]>>),
              CONNECTION, KEEP_ALIVE)

ResponseNo(n) ==
    RawResponse(StatusLineOK,
                <<HeaderLine(CONNECTION, KEEP_ALIVE),
                  HeaderLine(toLower(CONTENT_LENGTH), <<"1">>)>>,
                <<Digits[n + 1]>>)

\* processRequest is called; `!connMgr.isConnected()`: the MSG_PEEK recv
\* sees the first unread byte, or would block when there is none
KAIsConnected ==
    /\ pc = "idle"
    /\ sent < MaxRequests
    /\ sent' = sent + 1
    /\ request' = RequestNo(sent + 1)
    /\ ip' = KeepAliveTarget[1]
    /\ port' = KeepAliveTarget[2]
    /\ CMIsConnected(IF inbox = <<>> THEN ReadWouldBlock
                     ELSE Got(<<Head(inbox)>>))
    /\ trace' = <<Entry("isConnected", lastCall'.ret, NoExc, socket')>>
    /\ pc' = IF lastCall'.ret THEN "send" ELSE "connect"
    /\ outcome' = "running"
    /\ raw' = <<>>
    /\ response' = HttpResponse
    /\ parsed' = "fresh"
    /\ UNCHANGED <<closeSeen, script, sockvars, pending, inbox,
                   appvars>>

\* `!connMgr.connect(ip, port)`; nothing is pending or unread on a new
\* connection
KAConnect ==
    /\ pc = "connect"
    /\ \E env \in ConnectInputs : CMConnect(ip, port, env)
    /\ trace' = Append(trace, Entry("connect",
                                    lastCall'.ret /\ lastCall'.exc = NoExc,
                                    lastCall'.exc, socket'))
    /\ IF lastCall'.exc = NoExc /\ lastCall'.ret
       THEN Goto("send")
       ELSE Leave(lastCall'.exc)
    /\ pending' = <<>>
    /\ inbox' = <<>>
    /\ UNCHANGED <<closeSeen, parsevars, script, sockvars, sent,
                   appvars>>

\* serializeRequest and `!connMgr.send(requestData)`; the server has the
\* request once all of it is written
KASend ==
    /\ pc = "send"
    /\ \E order \in Orders(DOMAIN request.headers) :
          LET requestData == serializeRequest(request, order)
          IN  \E writes \in WriteScripts(link, Len(requestData)) :
                  CMSend(requestData, writes)
    /\ trace' = Append(trace, Entry("send",
                                    lastCall'.ret /\ lastCall'.exc = NoExc,
                                    lastCall'.exc, socket'))
    /\ IF lastCall'.exc = NoExc /\ lastCall'.ret
       THEN Goto("receive")
       ELSE Leave(lastCall'.exc)
    /\ pending' = IF lastCall'.allSent THEN Append(pending, sent) ELSE pending
    /\ UNCHANGED <<closeSeen, parsevars, script, sockvars, sent, inbox,
                   appvars>>

\* the server answers the oldest request it has not answered yet
KAServerAnswer ==
    /\ pending # <<>>
    /\ link = "established"
    /\ inbox' = inbox \o ResponseNo(Head(pending))
    /\ pending' = Tail(pending)
    /\ lastCall' = [op |-> "peer"]
    /\ UNCHANGED <<wvars, prvars, parsevars, script, sockvars, sent,
                   appvars>>

\* `connMgr.receive()`: the first recv takes the unread bytes, and no more
\* arrive within the poll timeout; with no unread byte the first poll times
\* out
KAReceive ==
    /\ pc = "receive"
    /\ CMReceive(IF inbox = <<>> THEN <<>> ELSE <<ReadEvent(inbox)>>)
    /\ inbox' = <<>>
    /\ trace' = Append(trace, Entry("receive",
                                    lastCall'.has /\ lastCall'.exc = NoExc,
                                    lastCall'.exc, socket'))
    /\ IF lastCall'.exc = NoExc /\ lastCall'.has
       THEN Goto("parse") /\ raw' = lastCall'.data
       ELSE Leave(lastCall'.exc) /\ raw' = raw
    /\ UNCHANGED <<closeSeen, response, parsed, script, sockvars, sent, pending,
                   appvars>>

KeepAliveNext ==
    \/ KAIsConnected
    \/ KAConnect
    \/ KASend
    \/ KAServerAnswer
    \/ KAReceive
    \/ PRParse
    \/ PRKeepAlive

KeepAliveSpec == Init /\ [][KeepAliveNext]_vars

---------------------------------------------------------------------------
(* HeaderSpec: setHeader and removeHeader called on one HttpMessage (the   *)
(* request), trace keeping the calls made so far                           *)

\* Largest number of calls made on the message.
MaxCalls == 3

\* the keys the calls are made with, and the keys looked up afterwards
HeaderKeys == {<<"A","b">>, <<"a","B">>, <<"c">>}

LookupKeys == HeaderKeys \cup {<<"a","b">>, <<"A","B">>, <<"C">>}

HeaderValues == {<<"1">>, <<"2">>}

HeaderFrame ==
    UNCHANGED <<wvars, pc, ip, port, outcome, closeSeen, parsevars, script,
                sockvars, peervars, appvars>>

\* request.setHeader(key, value)
HdrSet ==
    /\ Len(trace) < MaxCalls
    /\ \E key \in HeaderKeys, value \in HeaderValues :
          /\ request' = setHeader(request, key, value)
          /\ trace' = Append(trace, [op |-> "setHeader", key |-> key,
                                     value |-> value])
          /\ lastCall' = [op |-> "setHeader", ret |-> TRUE]
    /\ HeaderFrame

\* request.removeHeader(key): true iff an entry was erased
HdrRemove ==
    /\ Len(trace) < MaxCalls
    /\ \E key \in HeaderKeys :
          /\ request' = removeHeader(request, key)
          /\ trace' = Append(trace, [op |-> "removeHeader", key |-> key,
                                     value |-> <<>>])
          /\ lastCall' = [op |-> "removeHeader",
                          ret |-> hasHeader(request, key)]
    /\ HeaderFrame

HeaderNext ==
    \/ HdrSet
    \/ HdrRemove

HeaderSpec == Init /\ [][HeaderNext]_vars

---------------------------------------------------------------------------
(* RequestSpec: a Request is filled in by its setters, serialized by       *)
(* HttpClient::serializeRequest, and the bytes are parsed back as a peer   *)
(* receiving them would; pc is "idle" while the Request is filled in       *)

RequestURIs == {<<"/">>, <<"/","a","?","b","=","1">>}

RequestHeaderKeys == {<<"H","o","s","t">>, <<"X">>, <<"x">>}

RequestHeaderValues ==
    {<<"v">>, <<>>, <<"a",":",SP,"b">>, <<SP,"x">>}

RequestBodies == {<<>>, <<"x">>, <<"a","=","1",CR,LF,CR,LF,"b">>}

\* the peer's parser of a request: the start line is split at its first two
\* spaces, the header block between the start line and the blank line is read
\* by parseHeaders, and the body is what follows the blank line
parseRequest(rawData) ==
    LET startLineEnd == Find(rawData, CRLF, 0)
        line         == Substr(rawData, 0, startLineEnd)
        methodEnd    == Find(line, <<SP>>, 0)
        uriEnd       == Find(line, <<SP>>, methodEnd + 1)
        headersEnd   == Find(rawData, CRLFCRLF, startLineEnd)
        headersBlock == IF headersEnd > startLineEnd
                        THEN Substr(rawData, startLineEnd + 2,
                                    headersEnd - startLineEnd - 2)
                        ELSE <<>>
    IN  [method  |-> Substr(line, 0, methodEnd),
         uri     |-> Substr(line, methodEnd + 1, uriEnd - methodEnd - 1),
         version |-> SubstrFrom(line, uriEnd + 1),
         headers |-> parseHeaders(NoRequest, headersBlock).headers,
         body    |-> SubstrFrom(rawData, headersEnd + 4)]

RequestFrame ==
    UNCHANGED <<wvars, ip, port, trace, outcome, closeSeen, response, parsed,
                script, sockvars, peervars, appvars>>

\* request.setMethod(method)
ReqSetMethod ==
    /\ pc = "idle"
    /\ \E method \in Method :
          /\ request' = setMethod(request, method)
          /\ lastCall' = [op |-> "setMethod", method |-> method]
    /\ UNCHANGED <<pc, raw>>
    /\ RequestFrame

\* request.setURI(uri)
ReqSetURI ==
    /\ pc = "idle"
    /\ \E uri \in RequestURIs : request' = setURI(request, uri)
    /\ UNCHANGED <<pc, raw, lastCall>>
    /\ RequestFrame

\* request.setHeader(key, value)
ReqSetHeader ==
    /\ pc = "idle"
    /\ \E key \in RequestHeaderKeys, value \in RequestHeaderValues :
          request' = setHeader(request, key, value)
    /\ UNCHANGED <<pc, raw, lastCall>>
    /\ RequestFrame

\* request.setBody(body)
ReqSetBody ==
    /\ pc = "idle"
    /\ \E body \in RequestBodies : request' = setBody(request, body)
    /\ UNCHANGED <<pc, raw, lastCall>>
    /\ RequestFrame

\* serializeRequest(request), the unordered_map iterated in some order
ReqSerialize ==
    /\ pc = "idle"
    /\ \E order \in Orders(DOMAIN request.headers) :
          raw' = serializeRequest(request, order)
    /\ pc' = "serialized"
    /\ UNCHANGED <<request, lastCall>>
    /\ RequestFrame

\* the serialized bytes are parsed back
ReqParseBack ==
    /\ pc = "serialized"
    /\ lastCall' = [op |-> "parseRequest", back |-> parseRequest(raw)]
    /\ pc' = "parsed"
    /\ UNCHANGED <<request, raw>>
    /\ RequestFrame

RequestNext ==
    \/ ReqSetMethod
    \/ ReqSetURI
    \/ ReqSetHeader
    \/ ReqSetBody
    \/ ReqSerialize
    \/ ReqParseBack

RequestSpec == Init /\ [][RequestNext]_vars

---------------------------------------------------------------------------
(* ConfigSpec: Config::loadConfig called again and again on the singleton  *)
(* with the arguments of the process; trace keeps the calls made so far    *)

\* Largest number of loadConfig calls in one behaviour.
MaxLoads == 3

\* Largest number of command-line arguments after the program name.
MaxArgs == 3

DASH_D == <<"-","d">>
DASH_DASH_DEBUG == <<"-","-","d","e","b","u","g">>
DASH_X == <<"-","x">>

\* argv[1..argc-1]
ArgVectors == SeqsUpTo({DASH_D, DASH_DASH_DEBUG, DASH_X}, MaxArgs)

\* the getopt_long loop of parseCommandLine from argument ind on: 'd' for -d
\* and --debug, '?' (handleInvalidOption throws) for any other option, -1 at
\* the end of the arguments; ind is getopt's optind when the loop is left
RECURSIVE getoptLoop(_, _, _)
getoptLoop(args, ind, parsedData) ==
    IF ind > Len(args)
    THEN [data |-> parsedData, optind |-> ind, exc |-> NoExc]
    ELSE IF args[ind] \in {DASH_D, DASH_DASH_DEBUG}
    THEN getoptLoop(args, ind + 1, [parsedData EXCEPT !.debug = TRUE])
    ELSE [data |-> parsedData, optind |-> ind + 1, exc |-> "invalid_argument"]

\* Config::parseCommandLine: `data = parsedData` unless the loop threw
parseCommandLine(cfg, ind, args) ==
    LET r == getoptLoop(args, ind, ConfigData)
    IN  [config |-> IF r.exc = NoExc THEN [cfg EXCEPT !.data = r.data] ELSE cfg,
         optind |-> r.optind, exc |-> r.exc, parsed |-> TRUE]

\* Config::loadConfig
loadConfig(cfg, ind, args) ==
    IF cfg.configLoaded
    THEN [config |-> cfg, optind |-> ind, exc |-> NoExc, parsed |-> FALSE]
    ELSE parseCommandLine(cfg, ind, args)

\* Config::getInstance().loadConfig(argc, argv)
LoadConfig ==
    /\ Len(trace) < MaxLoads
    /\ \E args \in ArgVectors :
          LET r == loadConfig(config, optind, args)
          IN  /\ trace # <<>> => args = trace[1].args
              /\ config' = r.config
              /\ optind' = r.optind
              /\ lastCall' = [op |-> "loadConfig", parsed |-> r.parsed,
                              exc |-> r.exc]
              /\ trace' = Append(trace, [args |-> args, parsed |-> r.parsed,
                                         exc |-> r.exc])
    /\ UNCHANGED <<wvars, pc, ip, port, request, outcome, closeSeen, parsevars,
                   script, sockvars, peervars, uivars, logvars>>

ConfigNext == LoadConfig

ConfigSpec == Init /\ [][ConfigNext]_vars

---------------------------------------------------------------------------
(* LoggerSpec: Logger::log and Logger::print called by the program's       *)
(* thread and by a second thread, one statement at a time, with            *)
(* signalHandler interrupting a thread at any statement.  logMutex is a    *)
(* std::mutex: it is owned by a thread, and signalHandler runs on the      *)
(* thread it interrupts.                                                   *)

\* Largest number of Logger calls each thread makes before the menu loop
\* tests the signal flag.
MaxLogCalls == 1

\* Largest number of signals delivered in one behaviour.
MaxSignals == 1

SIGINT == 2
SIGTERM == 15

\* enum class LogLevel, in the order of its enumerators
LogLevel == <<"DEBUG", "INFO", "WARN", "ERROR">>

LogLevelRank(level) == CHOOSE i \in 1..Len(LogLevel) : LogLevel[i] = level

\* Logger::Logger(LogLevel level = LogLevel::INFO)
currentLevel == "INFO"

\* the levels the callers log at
LogLevels == {"DEBUG", "ERROR"}

\* the thread whose mutex ownership a caller's lock counts as
ThreadOf(c) == IF c = "signalHandler" THEN handler ELSE c

\* std::terminate was called
Terminated == logpc["signalHandler"].at = "terminated"

\* the caller can take a step: signalHandler while it runs, a thread while
\* no handler runs on it
Runnable(c) ==
    /\ ~Terminated
    /\ IF c = "signalHandler" THEN handler # "none" ELSE handler # c

LoggerFrame ==
    UNCHANGED <<wvars, prvars, parsevars, lastCall, script, sockvars, peervars,
                cin, cfgvars>>

\* Logger::log(message, level): std::cerr for ERROR, else std::cout; return
\* at once below the current level
LogCallLog(t) ==
    /\ Runnable(t)
    /\ logpc[t].at = "idle"
    /\ logpc[t].n < MaxLogCalls
    /\ currentState # "EXIT"
    /\ \E level \in LogLevels :
          logpc' = [logpc EXCEPT ![t] =
              IF LogLevelRank(level) < LogLevelRank(currentLevel)
              THEN [@ EXCEPT !.n = @ + 1]
              ELSE [at |-> "lock", fn |-> "log",
                    stream |-> IF level = "ERROR" THEN "cerr" ELSE "cout",
                    n |-> @.n + 1, exiting |-> FALSE]]
    /\ UNCHANGED <<logMutex, handler, out, currentState, previousState,
                   signal_received>>
    /\ LoggerFrame

\* Logger::print(message)
LogCallPrint(t) ==
    /\ Runnable(t)
    /\ logpc[t].at = "idle"
    /\ logpc[t].n < MaxLogCalls
    /\ currentState # "EXIT"
    /\ logpc' = [logpc EXCEPT ![t] =
                    [at |-> "lock", fn |-> "print", stream |-> "cout",
                     n |-> @.n + 1, exiting |-> FALSE]]
    /\ UNCHANGED <<logMutex, handler, out, currentState, previousState,
                   signal_received>>
    /\ LoggerFrame

\* the caller goes on without locking the mutex
LogLockNoMutex(c) ==
    /\ Runnable(c)
    /\ logpc[c].at = "lock"
    /\ logpc' = [logpc EXCEPT ![c].at = "write"]
    /\ UNCHANGED <<logMutex, handler, out, currentState, previousState,
                   signal_received>>
    /\ LoggerFrame

\* std::scoped_lock<std::mutex> lock(logMutex): the caller waits while
\* another thread owns the mutex.  Locking a std::mutex the calling thread
\* already owns is undefined: the call never returns, or it fails with an
\* exception, which ends a noexcept function in std::terminate
LogLock(c) ==
    /\ Runnable(c)
    /\ logpc[c].at = "lock"
    /\ \/ /\ logMutex = "free"
          /\ logMutex' = ThreadOf(c)
          /\ logpc' = [logpc EXCEPT ![c].at = "write"]
       \/ /\ logMutex = ThreadOf(c)
          /\ logMutex' = logMutex
          /\ \E ub \in {"deadlocked", "terminated"} :
                logpc' = [logpc EXCEPT ![c].at = ub]
    /\ UNCHANGED <<handler, out, currentState, previousState, signal_received>>
    /\ LoggerFrame

\* `out << oss.str()` / `std::cout << message`
LogWrite(c) ==
    /\ Runnable(c)
    /\ logpc[c].at = "write"
    /\ out' = Append(out, [by |-> c, part |-> "text",
                           stream |-> logpc[c].stream])
    /\ logpc' = [logpc EXCEPT ![c].at = "endl"]
    /\ UNCHANGED <<logMutex, handler, currentState, previousState,
                   signal_received>>
    /\ LoggerFrame

\* `<< std::endl` and flush()
LogEndl(c) ==
    /\ Runnable(c)
    /\ logpc[c].at = "endl"
    /\ out' = Append(out, [by |-> c, part |-> "endl",
                           stream |-> logpc[c].stream])
    /\ logpc' = [logpc EXCEPT ![c].at = "unlock"]
    /\ UNCHANGED <<logMutex, handler, currentState, previousState,
                   signal_received>>
    /\ LoggerFrame

\* the scoped_lock is destroyed and the call returns; signalHandler returns
\* with it, and run() goes on to switchToState(EXIT) after its log call
LogUnlock(c) ==
    /\ Runnable(c)
    /\ logpc[c].at = "unlock"
    /\ logMutex' = "free"
    /\ logpc' = [logpc EXCEPT ![c] = [NotLogging EXCEPT !.n = logpc[c].n]]
    /\ handler' = IF c = "signalHandler" THEN "none" ELSE handler
    /\ IF logpc[c].exiting
       THEN currentState' = "EXIT" /\ previousState' = currentState
       ELSE UNCHANGED <<currentState, previousState>>
    /\ UNCHANGED <<out, signal_received>>
    /\ LoggerFrame

\* a signal is delivered to thread t: signalHandler sets the flag and calls
\* Logger::print
SignalHandler(t) ==
    /\ ~Terminated
    /\ handler = "none"
    /\ logpc["signalHandler"].n < MaxSignals
    /\ \E signum \in {SIGINT, SIGTERM} : signal_received' = signum
    /\ handler' = t
    /\ logpc' = [logpc EXCEPT !["signalHandler"] =
                    [at |-> "lock", fn |-> "print", stream |-> "cout",
                     n |-> @.n + 1, exiting |-> FALSE]]
    /\ UNCHANGED <<logMutex, out, currentState, previousState>>
    /\ LoggerFrame

\* InputHandler::run, `if(signal_received)`: the log call before
\* switchToState(EXIT)
LogRunExit ==
    /\ Runnable("main")
    /\ logpc["main"].at = "idle"
    /\ currentState # "EXIT"
    /\ signal_received # 0
    /\ logpc' = [logpc EXCEPT !["main"] =
                    [at |-> "lock", fn |-> "log", stream |-> "cout",
                     n |-> @.n, exiting |-> TRUE]]
    /\ UNCHANGED <<logMutex, handler, out, currentState, previousState,
                   signal_received>>
    /\ LoggerFrame

LoggerNext ==
    \/ \E t \in Threads : LogCallLog(t)
    \/ \E t \in Threads : LogCallPrint(t)
    \/ \E c \in Callers : LogLock(c)
    \/ \E c \in Callers : LogWrite(c)
    \/ \E c \in Callers : LogEndl(c)
    \/ \E c \in Callers : LogUnlock(c)
    \/ \E t \in Threads : SignalHandler(t)
    \/ LogRunExit

LoggerSpec == Init /\ [][LoggerNext]_vars

\* every step that can be taken is taken in the end
LoggerLiveSpec == LoggerSpec /\ WF_vars(LoggerNext)

---------------------------------------------------------------------------
(* InputHandler: the menu state machine.  A handler state h is a record of *)
(* the object's fields; a context m carries h and the manager state w      *)
(* through the calls of one step and collects what the step did: the       *)
(* manager calls made, the requests handed to processRequest that reached  *)
(* the send, and the exception that leaves the step, if any.  What is      *)
(* written to the terminal is not kept, except whether a prompt was shown. *)

\* the one character "\033"
ESC_KEY == <<"^[">>

MIN_PORT == 1
MAX_PORT == 65535

DEFAULT_IP == <<"1","2","7",".","0",".","0",".","1">>
DEFAULT_PORT == <<"6","0","0","0","1">>

\* InputHandler::InputHandler
InputHandler ==
    [currentState |-> "MAIN_MENU", previousState |-> "MAIN_MENU",
     ip |-> <<>>, port |-> <<>>]

H == [currentState |-> currentState, previousState |-> previousState,
      ip |-> ip, port |-> port]

SetH(h) ==
    /\ currentState' = h.currentState
    /\ previousState' = h.previousState
    /\ ip' = h.ip
    /\ port' = h.port

Ctx(h, w) ==
    [h |-> h, w |-> w, calls |-> <<>>, sends |-> 0, exc |-> NoExc,
     over |-> FALSE]

\* InputHandler::switchToState
switchToState(m, state) ==
    [m EXCEPT !.h.previousState = m.h.currentState, !.h.currentState = state]

\* InputHandler::checkValidIP, checkValidPort, checkValidURI
checkValidIP(text) == inet_pton(text) = 1

checkValidPort(text) ==
    /\ text # <<>>
    /\ IsDigit(text[1])
    /\ LET portNum == strtol(text)
       IN  portNum.tag = "ok" /\ portNum.val >= MIN_PORT /\ portNum.val <= MAX_PORT

checkValidURI(uri) == uri # <<>> /\ uri[1] = "/"

\* the validation readPostBody hands to readInput
checkValidPostBody(postBody) == postBody # <<>>

\* http::encoding::ENCODING_MAP, for the characters of the lines entered
ENCODING_MAP ==
    [c \in {".", "/"} |-> IF c = "." THEN <<"%","2","E">> ELSE <<"%","2","F">>]

\* http::encoding::encode
encode(str) ==
    Concat([i \in 1..Len(str) |->
               IF str[i] \in DOMAIN ENCODING_MAP THEN ENCODING_MAP[str[i]]
               ELSE <<str[i]>>])

\* std::to_string of a size_t
RECURSIVE to_string(_)
to_string(n) ==
    IF n < 10 THEN <<Digits[n + 1]>>
    ELSE to_string(n \div 10) \o <<Digits[(n % 10) + 1]>>

APP_FORM ==
    <<"a","p","p","l","i","c","a","t","i","o","n","/","x","-","w","w","w","-",
      "f","o","r","m","-","u","r","l","e","n","c","o","d","e","d">>

\* InputHandler::buildRequest
buildRequest(h, method, uri, body) ==
    LET common ==
            setHeader(
              setHeader(
                setHeader(setURI(setMethod(NoRequest, method), uri),
                          <<"H","o","s","t">>, h.ip \o <<":">> \o h.port),
                <<"U","s","e","r","-","A","g","e","n","t">>,
                <<"H","T","T","P",SP,"C","l","i","e","n","t","/","1",".","1">>),
              <<"A","c","c","e","p","t">>, <<"*","/","*">>)
    IN  IF method = "GET" THEN setHeader(common, CONNECTION, KEEP_ALIVE)
        ELSE IF method = "POST"
        THEN setHeader(
               setHeader(
                 setHeader(setBody(common, body),
                           <<"C","o","n","t","e","n","t","-","T","y","p","e">>,
                           APP_FORM),
                 CONTENT_LENGTH, to_string(Len(body))),
               CONNECTION, CLOSE)
        ELSE common

\* the results of the system calls made while one line is acted on: what
\* the MSG_PEEK recv of isConnected finds, how a connect goes, whether the
\* request is written, and what the peer answers
PeekOf(l, tag) ==
    CASE l = "established" -> IF tag = "data" THEN Got(<<"x">>) ELSE ReadWouldBlock
      [] l = "peer_closed" -> PeerClosed
      [] OTHER             -> ReadFailed

ConnectDone ==
    CHOOSE e \in ConnectEnvs : e.fcntl = "ok" /\ e.conn = "done"

ConnectRefused ==
    CHOOSE e \in ConnectEnvs : e.fcntl = "ok" /\ e.conn = "error"

MenuReadScripts ==
    {<<ReadEvent(RawResponse(StatusLineOK,
                             <<HeaderLine(CONNECTION, KEEP_ALIVE),
                               HeaderLine(toLower(CONTENT_LENGTH), <<"2">>)>>,
                             <<"h","i">>))>>,
     <<ReadEvent(RawResponse(StatusLineOK, <<HeaderLine(CONNECTION, CLOSE)>>,
                             <<>>))>>,
     <<>>}

MenuEnv(peek, ctor, sock, written, scr) ==
    [peek |-> peek, env |-> [ctor |-> ctor, sock |-> sock],
     written |-> written, scr |-> scr]

\* the peer answers and keeps the connection, answers and closes it, or
\* does not answer; the connection is refused; no socket is to be had; the
\* request cannot be written; unread data is waiting in the socket
MenuEnvs ==
    {MenuEnv("none", "ok", ConnectDone, TRUE, scr) : scr \in MenuReadScripts}
    \cup {MenuEnv("none", "ok", ConnectRefused, TRUE, <<>>),
          MenuEnv("none", "socket_fail", ConnectDone, TRUE, <<>>),
          MenuEnv("none", "ok", ConnectDone, FALSE, <<>>),
          MenuEnv("data", "ok", ConnectDone, TRUE, <<>>)}

\* the one element of a set: The({e : v \in {d}}) is e with v the value
\* of d
The(S) == CHOOSE v \in S : TRUE

\* connMgr.isConnected() and connMgr.connect(ip, port) as called by the
\* handler; over: the operating system is asked for more sockets than the
\* model has
mIsConnected(m, x) ==
    The({[m |-> [m EXCEPT !.w = r.w, !.calls = Append(@, "isConnected")],
          ret |-> r.ret] :
         r \in {isConnected(m.w, PeekOf(m.w.link, x.peek))}})

mConnect(m, host, service, x) ==
    The({[m |-> [m EXCEPT !.w = r.w, !.calls = Append(@, "connect"),
                          !.exc = r.exc,
                          !.over = @ \/ m.w.nextFd > MaxSockets],
          ret |-> r.ret /\ r.exc = NoExc] :
         r \in {connect(m.w, host, service, x.env)}})

mDisconnect(m) ==
    [m EXCEPT !.w = disconnect(m.w), !.calls = Append(@, "disconnect")]

\* if(!connMgr.isConnected()) connMgr.connect(ip, port): the context and
\* whether there is a connection
connectIfNeeded(m, host, service, x) ==
    The({IF c.ret THEN c ELSE mConnect(c.m, host, service, x) :
         c \in {mIsConnected(m, x)}})

\* HttpClient::processRequest from its send on, with the connection it
\* found or made
processRequestConnected(m1, req, x) ==
    LET data == serializeRequest(req, CHOOSE o \in Orders(DOMAIN req.headers) : TRUE)
        m2   == [m1 EXCEPT !.sends = @ + 1, !.calls = Append(@, "send")]
    IN  The({IF s.exc # NoExc \/ ~s.ret THEN m2
             ELSE The({The({IF r.exc # NoExc \/ ~r.has THEN m3
                            ELSE The({IF ~p.ok THEN m3
                                      ELSE IF ~p.resp.keepAlive
                                      THEN mDisconnect(m3)
                                      ELSE m3 :
                                      p \in {parse(HttpResponse, r.data)}}) :
                            m3 \in {[m2 EXCEPT
                                       !.calls = Append(@, "receive"),
                                       !.w.link = IF r.last = "closed"
                                                  THEN "peer_closed"
                                                  ELSE m2.w.link]}}) :
                       r \in {receive(m2.w, x.scr)}}) :
             s \in {send(m1.w, data,
                         IF x.written THEN <<Wrote(Len(data))>>
                         ELSE <<WriteFailed>>)}})

\* HttpClient::processRequest as one call: every exception is caught and
\* logged, and the call returns
processRequest(m, req, host, service, x) ==
    The({IF ~k.ret THEN [k.m EXCEPT !.exc = NoExc]
         ELSE processRequestConnected([k.m EXCEPT !.exc = NoExc], req, x) :
         k \in {connectIfNeeded(m, host, service, x)}})

\* InputHandler::clearConnection
clearConnection(m) ==
    mDisconnect([m EXCEPT !.h.ip = <<>>, !.h.port = <<>>])

\* InputHandler::checkConnection; an exception of connect leaves it
checkConnection(m, x) == connectIfNeeded(m, m.h.ip, m.h.port, x)

\* InputHandler::quickConnect
quickConnect(m, x) ==
    IF m.h.ip = DEFAULT_IP /\ m.h.port = DEFAULT_PORT THEN m
    ELSE The({IF c.m.exc # NoExc \/ c.ret THEN c.m
              ELSE mDisconnect([c.m EXCEPT !.h.ip = <<>>, !.h.port = <<>>]) :
              c \in {checkConnection([m EXCEPT !.h.ip = DEFAULT_IP,
                                               !.h.port = DEFAULT_PORT], x)}})

\* InputHandler::sendAndValidate
sendAndValidate(m, method, uri, body, x) ==
    LET req == buildRequest(m.h, method, uri, body)
    IN  IF getStatusLine(req) = <<>> THEN [m |-> m, ret |-> FALSE]
        ELSE The({IF ~k.ret THEN [m |-> k.m, ret |-> FALSE]
                  ELSE [m |-> The({processRequest(m1, req, m.h.ip, m.h.port, x) :
                                   m1 \in {k.m}}),
                        ret |-> TRUE] :
                  k \in {connectIfNeeded(m, m.h.ip, m.h.port, x)}})

\* handleMainMenuInput, choice "2", without the test of ip and port
continueBrowsingUnchecked(m) == switchToState(m, "REQUEST_MENU")

\* handleMainMenuInput, choice "2"
continueBrowsing(m) ==
    IF m.h.ip = <<>> \/ m.h.port = <<>> THEN switchToState(m, "MAIN_MENU")
    ELSE switchToState(m, "REQUEST_MENU")

\* InputHandler::handleMainMenuInput, after the test of the signal flag
handleMainMenuInput(m, choice, x) ==
    CASE choice = <<"1">> -> switchToState(clearConnection(m), "ENTER_IP")
      [] choice = <<"2">> -> continueBrowsing(m)
      [] choice = <<"3">> ->
            The({IF q.exc # NoExc THEN q ELSE switchToState(q, "MAIN_MENU") :
                 q \in {quickConnect(m, x)}})
      [] choice = <<"4">> ->
            switchToState(IF m.h.ip = <<>> \/ m.h.port = <<>> THEN m
                          ELSE clearConnection(m), "MAIN_MENU")
      [] choice = <<"h">> -> switchToState(m, "HELP_MENU")
      [] choice = <<"q">> -> switchToState(m, "EXIT")
      [] OTHER            -> switchToState(m, "MAIN_MENU")

\* InputHandler::handleRequestMenuInput, after the test of the signal flag
handleRequestMenuInput(m, choice) ==
    CASE choice = <<"1">> -> switchToState(m, "ENTER_URI")
      [] choice = <<"2">> -> switchToState(m, "ENTER_POST_BODY")
      [] choice = ESC_KEY -> switchToState(m, "MAIN_MENU")
      [] OTHER            -> switchToState(m, "REQUEST_MENU")

\* InputHandler::handleHelpMenuInput, after the test of the signal flag
handleHelpMenuInput(m) == switchToState(m, "MAIN_MENU")

\* readInput that does not know the ESC key
readInputNoEsc(input, valid) == IF valid THEN "valid" ELSE "invalid"

\* InputHandler::readInput, one turn of its loop after the test of the
\* signal flag: "esc" (MAIN_MENU, nullopt), "valid" (the input is returned)
\* or "invalid" (message, and the loop goes on)
readInput(input, valid) ==
    IF input = ESC_KEY THEN "esc"
    ELSE IF valid THEN "valid"
    ELSE "invalid"

\* InputHandler::readIP and run's case ENTER_IP, for a value readInput
\* returned
readIP(m, value) ==
    IF value # <<>> THEN switchToState([m EXCEPT !.h.ip = value], "ENTER_PORT")
    ELSE m

\* InputHandler::readPort and run's case ENTER_PORT
readPort(m, value, x) ==
    IF value # <<>>
    THEN The({IF c.m.exc # NoExc THEN c.m
              ELSE IF c.ret THEN switchToState(c.m, "REQUEST_MENU")
              ELSE switchToState(c.m, "MAIN_MENU") :
              c \in {checkConnection([m EXCEPT !.h.port = value], x)}})
    ELSE m

\* run's cases ENTER_URI and ENTER_POST_BODY after sendAndValidate: the
\* state is entered again when the request was sent
afterSend(s, state) ==
    IF s.m.exc = NoExc /\ s.ret THEN switchToState(s.m, state) ELSE s.m

\* InputHandler::readURI and run's case ENTER_URI
readURI(m, value, x) ==
    IF value # <<>>
    THEN The({afterSend(s, "ENTER_URI") :
              s \in {sendAndValidate(m, "GET", value, <<>>, x)}})
    ELSE m

\* InputHandler::readPostBody and run's case ENTER_POST_BODY
readPostBody(m, value, x) ==
    IF value # <<>>
    THEN The({afterSend(s, "ENTER_POST_BODY") :
              s \in {sendAndValidate(m, "POST", <<"/","s","u","b","m","i","t">>,
                                     <<"c","o","m","m","e","n","t","=">>
                                       \o encode(value), x)}})
    ELSE m

---------------------------------------------------------------------------
(* MenuSpec: InputHandler::run, one action per test of the loop and per    *)
(* line read.  pc is the position in run: "idle" before the call, "loop"   *)
(* at the test of the while loop, "input" in the std::getline of the       *)
(* current state after its prompt was shown, "message" in the printMessage *)
(* of readInput, "returned" after the return, "thrown" when an exception   *)
(* has left run.  A signal sets the flag at any position.                  *)

\* the lines the user enters at the prompt of a state: the choices of the
\* menu, a value the prompt accepts, one it rejects, and the ESC key
InputLines(state) ==
    CASE state = "MAIN_MENU" ->
            {<<"1">>, <<"2">>, <<"3">>, <<"4">>, <<"h">>, <<"q">>, <<"x">>}
      [] state = "REQUEST_MENU"    -> {<<"1">>, <<"2">>, ESC_KEY, <<"x">>}
      [] state = "ENTER_IP"        ->
            {<<"1",".","2",".","3",".","4">>, <<"x">>, ESC_KEY}
      [] state = "ENTER_PORT"      -> {<<"8","0">>, <<"0">>, ESC_KEY}
      [] state = "ENTER_URI"       -> {<<"/">>, <<"x">>, ESC_KEY}
      [] state = "ENTER_POST_BODY" -> {<<".">>, <<>>, ESC_KEY}
      [] OTHER                     -> {<<>>}

\* what std::getline stores: the line entered, or nothing at the end of the
\* input
LinesRead == IF cin = "eof" THEN {<<>>} ELSE InputLines(currentState)

MenuFrame ==
    UNCHANGED <<request, trace, outcome, closeSeen, parsevars, script,
                sockvars, peervars, logvars, cfgvars>>

\* what a step did: whether it showed a prompt, whether the line it read
\* was the ESC key, whether it acted on the line, how many requests it sent
\* and whether it called the connection manager
Did(op, prompt, line, acted, m) ==
    [op |-> op, prompt |-> prompt, esc |-> line = ESC_KEY, acted |-> acted,
     sends |-> m.sends, managed |-> m.calls # <<>>]

\* a step that called the handler's functions ends in the context m
Apply(m) ==
    /\ ~m.over
    /\ SetH(m.h)
    /\ SetW(m.w)

\* if(signal_received) without the flag
interruptedNever(flag) == FALSE

\* if(signal_received)
interrupted(flag) == flag # 0

\* main: inputHandler.run()
MenuRun ==
    /\ pc = "idle"
    /\ pc' = "loop"
    /\ lastCall' = Did("run", FALSE, <<>>, FALSE, Ctx(H, W))
    /\ UNCHANGED <<wvars, ip, port, uivars>>
    /\ MenuFrame

\* InputHandler::run: the test of the while loop, the test of the signal
\* flag and the switch up to the std::getline of the state's handler; in
\* state EXIT, clearConnection
RunLoop ==
    /\ pc = "loop"
    /\ IF currentState = "EXIT"
       THEN /\ pc' = "returned"
            /\ lastCall' = Did("return", FALSE, <<>>, FALSE, Ctx(H, W))
            /\ UNCHANGED <<wvars, ip, port, currentState, previousState>>
       ELSE \E m \in {IF interrupted(signal_received)
                       THEN clearConnection(switchToState(Ctx(H, W), "EXIT"))
                       ELSE Ctx(H, W)} :
               /\ Apply(m)
               /\ pc' = IF m.h.currentState = "EXIT" THEN "loop" ELSE "input"
               /\ lastCall' = Did("loop", m.h.currentState # "EXIT", <<>>,
                                  FALSE, m)
    /\ UNCHANGED <<signal_received, cin>>
    /\ MenuFrame

\* a handler whose std::getline has returned line: nothing is done when the
\* signal flag is set, else the context becomes handled; next: where run
\* goes on
LineRead(line, handled, next) ==
    /\ IF interrupted(signal_received)
       THEN /\ pc' = "loop"
            /\ lastCall' = Did("input", FALSE, line, FALSE, Ctx(H, W))
            /\ UNCHANGED <<wvars, ip, port, currentState, previousState>>
       ELSE \E m \in {handled} :
               /\ Apply(m)
               /\ pc' = IF m.exc # NoExc THEN "thrown" ELSE next
               /\ lastCall' = Did("input", FALSE, line, TRUE, m)
    /\ UNCHANGED <<signal_received, cin>>
    /\ MenuFrame

\* displayMainMenu: handleMainMenuInput
MainMenuInput ==
    /\ pc = "input"
    /\ currentState = "MAIN_MENU"
    /\ \E choice \in LinesRead, x \in MenuEnvs :
          LineRead(choice, handleMainMenuInput(Ctx(H, W), choice, x), "loop")

\* displayRequestMenu: handleRequestMenuInput
RequestMenuInput ==
    /\ pc = "input"
    /\ currentState = "REQUEST_MENU"
    /\ \E choice \in LinesRead :
          LineRead(choice, handleRequestMenuInput(Ctx(H, W), choice), "loop")

\* displayHelpMenu: handleHelpMenuInput
HelpMenuInput ==
    /\ pc = "input"
    /\ currentState = "HELP_MENU"
    /\ \E choice \in LinesRead :
          LineRead(choice, handleHelpMenuInput(Ctx(H, W)), "loop")

\* a reader (readIP, readPort, readURI, readPostBody) whose readInput has
\* read input: ESC switches to MAIN_MENU, an invalid input is answered by
\* the message, a valid one is handed to the reader, whose context is m
Reader(input, valid, m) ==
    LET turn == readInput(input, valid)
    IN  LineRead(input,
                 CASE turn = "esc"   -> switchToState(Ctx(H, W), "MAIN_MENU")
                   [] turn = "valid" -> m
                   [] OTHER          -> Ctx(H, W),
                 IF turn = "invalid" THEN "message" ELSE "loop")

ReadIP ==
    /\ pc = "input"
    /\ currentState = "ENTER_IP"
    /\ \E input \in LinesRead :
          Reader(input, checkValidIP(input), readIP(Ctx(H, W), input))

ReadPort ==
    /\ pc = "input"
    /\ currentState = "ENTER_PORT"
    /\ \E input \in LinesRead, x \in MenuEnvs :
          Reader(input, checkValidPort(input), readPort(Ctx(H, W), input, x))

ReadURI ==
    /\ pc = "input"
    /\ currentState = "ENTER_URI"
    /\ \E input \in LinesRead, x \in MenuEnvs :
          Reader(input, checkValidURI(input), readURI(Ctx(H, W), input, x))

ReadPostBody ==
    /\ pc = "input"
    /\ currentState = "ENTER_POST_BODY"
    /\ \E input \in LinesRead, x \in MenuEnvs :
          Reader(input, checkValidPostBody(input),
                 readPostBody(Ctx(H, W), input, x))

\* readInput after printMessage: the loop goes on, the prompt is shown
\* again and std::getline is called
Reprompt ==
    /\ pc = "message"
    /\ pc' = "input"
    /\ lastCall' = Did("reprompt", TRUE, <<>>, FALSE, Ctx(H, W))
    /\ UNCHANGED <<wvars, ip, port, uivars>>
    /\ MenuFrame

\* SIGINT or SIGTERM is delivered: signalHandler sets the flag
MenuSignal ==
    /\ pc \in {"idle", "loop", "input", "message"}
    /\ \E signum \in {SIGINT, SIGTERM} : signal_received' = signum
    /\ lastCall' = Did("signal", FALSE, <<>>, FALSE, Ctx(H, W))
    /\ UNCHANGED <<wvars, pc, ip, port, currentState, previousState, cin>>
    /\ MenuFrame

\* the input source is exhausted: every std::getline from now on stores
\* nothing
InputEnds ==
    /\ cin = "good"
    /\ pc \in {"idle", "loop", "input", "message"}
    /\ cin' = "eof"
    /\ UNCHANGED <<wvars, pc, ip, port, currentState, previousState,
                   signal_received, lastCall>>
    /\ MenuFrame

\* the steps of run between two input operations
RunSteps ==
    \/ MenuRun
    \/ RunLoop
    \/ Reprompt

\* the steps in which a std::getline returns
InputSteps ==
    \/ MainMenuInput
    \/ RequestMenuInput
    \/ HelpMenuInput
    \/ ReadIP
    \/ ReadPort
    \/ ReadURI
    \/ ReadPostBody

MenuNext ==
    \/ RunSteps
    \/ InputSteps
    \/ MenuSignal
    \/ InputEnds

MenuSpec == Init /\ [][MenuNext]_vars

\* a std::getline returns at once when the input is exhausted, and the
\* input operation during which a signal arrived returns
InputReturns ==
    /\ interrupted(signal_received) \/ cin = "eof"
    /\ InputSteps

\* run goes on between two input operations; it waits in a std::getline
\* as long as the user enters nothing, unless the input is exhausted or the
\* operation is one that returns after a signal
MenuLiveSpec == MenuSpec /\ WF_vars(RunSteps) /\ WF_vars(InputReturns)

---------------------------------------------------------------------------
(* Properties of processRequest (Spec)                                     *)

StepRank(step) ==
    CASE step = "isConnected" -> 1
      [] step = "connect"     -> 2
      [] step = "send"        -> 3
      [] step = "receive"     -> 4
      [] step = "parse"       -> 5
      [] step = "disconnect"  -> 6

\* processRequest has returned after making at least one call
Returned == pc = "idle" /\ outcome = "returned" /\ trace # <<>>

\* C2: the calls of one processRequest run in the fixed order isConnected,
\* connect (only when isConnected was false), send (only after isConnected or
\* connect returned true), receive (only after send returned true), parse
\* (only after receive returned data), disconnect (only after a parsed
\* response that is not keep-alive, and then always); each call is made at
\* most once and a failed call is the last one.
C2_StepsInOrder ==
    /\ \A i \in 1..Len(trace) :
          LET e == trace[i]
          IN  /\ i = 1 => e.step = "isConnected"
              /\ i > 1 =>
                    LET p == trace[i - 1]
                    IN  /\ StepRank(e.step) > StepRank(p.step)
                        /\ e.step = "connect" => p.step = "isConnected" /\ ~p.ok
                        /\ e.step = "send" =>
                              p.step \in {"isConnected", "connect"} /\ p.ok
                        /\ e.step = "receive" => p.step = "send" /\ p.ok
                        /\ e.step = "parse" => p.step = "receive" /\ p.ok
                        /\ e.step = "disconnect" =>
                              p.step = "parse" /\ p.ok /\ ~response.keepAlive
    /\ Returned /\ Last(trace).ok =>
          \/ Last(trace).step = "disconnect"
          \/ Last(trace).step = "parse" /\ response.keepAlive

\* a call that connected, sent, received, parsed and disconnected
C2_Witness ==
    /\ Returned
    /\ Len(trace) = 6
    /\ trace[2].step = "connect"
    /\ Last(trace).step = "disconnect"

\* C3: when processRequest returns after parsing a response, a response that
\* is not keep-alive leaves the manager without a socket and disconnected,
\* and a keep-alive response leaves it connected on the socket the response
\* was received on; a request is never sent on a socket on which a
\* non-keep-alive response was parsed, and a call that finds the manager
\* connected sends on the socket it found.
C3_KeepAliveDecidesSocket ==
    /\ (Returned /\ \E i \in 1..Len(trace) : trace[i].step = "parse" /\ trace[i].ok) =>
          LET i == CHOOSE i \in 1..Len(trace) : trace[i].step = "parse"
          IN  IF response.keepAlive
              THEN /\ socket # 0
                   /\ socket = trace[i - 1].fd
                   /\ socket \in openFds
                   /\ connected
              ELSE socket = 0 /\ ~connected
    /\ (lastCall.op = "send" /\ lastCall.hadSocket) => socket \notin closeSeen
    /\ pc \in {"idle", "connect", "send", "receive"} => socket \notin closeSeen
    /\ \A i \in 1..Len(trace) :
          (trace[i].step = "send" /\ trace[1].ok) =>
              trace[i].fd = trace[1].fd /\ trace[i].fd # 0

\* a request was sent on a new socket after a non-keep-alive response
C3_Witness ==
    /\ closeSeen # {}
    /\ pc = "receive"
    /\ lastCall.op = "send"
    /\ lastCall.ret
    /\ socket \notin closeSeen

\* C4: processRequest never lets an exception reach its caller: whatever
\* connect, send, receive or parse raise, it returns normally.
C4_NeverPropagates == outcome # "propagated"

\* processRequest returned although one of its calls raised
C4_Witness ==
    /\ Returned
    /\ Last(trace).exc \in {"system_error", "invalid_argument"}

\* C5: when processRequest fails at send, receive or parse, the manager is
\* disconnected (no socket, connected flag false) when it returns.
C5_FailureResetsManager ==
    (/\ Returned
     /\ Last(trace).step \in {"send", "receive", "parse"}
     /\ ~Last(trace).ok)
    => socket = 0 /\ ~connected

---------------------------------------------------------------------------
(* Properties of the Connection Manager's calls (ManagerSpec)              *)

\* C9: send returns false when no socket is held; otherwise it returns true
\* exactly when the socket sent the whole buffer, and no send failure of the
\* socket leaves send as an exception.
C9_SendReturnsBool ==
    lastCall.op = "send" =>
        /\ lastCall.exc = NoExc
        /\ ~lastCall.hadSocket => ~lastCall.ret
        /\ lastCall.hadSocket => (lastCall.ret <=> lastCall.allSent)

\* C10: after a connect that returns false the manager is disconnected: the
\* connected flag is false and no socket is held; after a connect that
\* returns true the connected flag is true.
C10_FailedConnectDisconnects ==
    (lastCall.op = "connect" /\ lastCall.exc = NoExc) =>
        IF lastCall.ret THEN connected
        ELSE ~connected /\ socket = 0

\* C11: connect returns false and raises nothing for an empty host or port,
\* and for every non-empty host and port of which the IP text or the port
\* text cannot be converted to binary form (the socket itself was created).
C11_BadAddressReturnsFalse ==
    (/\ lastCall.op = "connect"
     /\ \/ lastCall.address = "empty"
        \/ lastCall.address = "unconvertible" /\ lastCall.ctor = "ok")
    => ~lastCall.ret /\ lastCall.exc = NoExc

\* C12: over any sequence of connect and disconnect calls the manager owns at
\* most one open descriptor: the socket it holds is open, a socket it held
\* before the call and no longer holds is closed, and a connect issued while a
\* socket is held has closed that socket by the time the new one is created.
C12_AtMostOneSocket ==
    /\ socket # 0 => socket \in openFds
    /\ lastCall.op \in {"connect", "disconnect"} =>
          /\ (lastCall.held # 0 /\ lastCall.held # socket) =>
                lastCall.held \notin openFds
          /\ Cardinality(openFds \cap {socket, lastCall.held}) <= 1
    /\ (lastCall.op = "connect" /\ lastCall.hadSocket
        /\ lastCall.address # "empty") =>
          lastCall.held \notin lastCall.during

\* a connect issued while a socket was held left the manager with a new socket
C12_Witness ==
    /\ lastCall.op = "connect"
    /\ lastCall.hadSocket
    /\ socket # 0
    /\ socket # lastCall.held

\* C13: disconnect leaves the manager with no socket and the connected flag
\* false from any state; it closes the held descriptor, which was open, and
\* nothing else; a further call changes nothing and closes no descriptor.
C13_DisconnectIdempotent ==
    lastCall.op = "disconnect" =>
        /\ socket = 0
        /\ ~connected
        /\ lastCall.closed \subseteq lastCall.openBefore
        /\ lastCall.closed = {lastCall.held} \ {0}
        /\ openFds = lastCall.openBefore \ lastCall.closed
        /\ disconnect(W) = W
        /\ disconnectCloses(W) = {}

\* disconnect was called with no socket held, after a socket had existed
C13_Witness ==
    /\ lastCall.op = "disconnect"
    /\ ~lastCall.hadSocket
    /\ nextFd > 1

\* C14: isConnected returns false when no socket is held; with a socket, a
\* peek that reports the peer's close or an error other than would-block sets
\* the connected flag to false and returns false; any other peek result
\* returns the flag and leaves it as it was.  The call takes no byte out of the
\* stream and never turns the flag from false to true.
C14_IsConnectedReportsFlag ==
    lastCall.op = "isConnected" =>
        LET broken == \/ lastCall.peek.ret = 0
                      \/ /\ lastCall.peek.ret < 0
                         /\ lastCall.peek.errno \notin WouldBlockErrnos
        IN  /\ ~lastCall.hadSocket =>
                  ~lastCall.ret /\ connected = lastCall.flagBefore
            /\ (lastCall.hadSocket /\ broken) => ~lastCall.ret /\ ~connected
            /\ (lastCall.hadSocket /\ ~broken) =>
                  /\ lastCall.ret = lastCall.flagBefore
                  /\ connected = lastCall.flagBefore
            /\ lastCall.consumed = 0
            /\ ~lastCall.flagBefore => ~connected

\* a peek that would block on a connected socket returned the flag, true
C14_Witness ==
    /\ lastCall.op = "isConnected"
    /\ lastCall.hadSocket
    /\ lastCall.peek = ReadWouldBlock
    /\ lastCall.ret
    /\ connected

---------------------------------------------------------------------------
(* Properties of the Socket class (SocketSpec, SocketLiveSpec)             *)

\* the number of live Socket objects whose socket_fd is fd
Owners(fd) == CopiesIn(fd, objs)

\* C15: every descriptor opened or adopted by a Socket is closed exactly once
\* over any sequence of constructions, moves and destructions, also when the
\* constructor fails after opening it: a descriptor is never closed twice, an
\* open descriptor belongs to exactly one live Socket (it is not leaked), and
\* a descriptor that is no longer open was closed once.
C15_ClosedExactlyOnce ==
    \A fd \in DOMAIN closes :
        /\ closes[fd] <= 1
        /\ fd \in openFds => Owners(fd) = 1
        /\ fd \notin openFds => closes[fd] = 1 /\ Owners(fd) = 0

\* C16: for a buffer of N bytes and any sequence of partial writes and
\* would-block results, the bytes accepted by the write primitive so far are
\* the first totalSent bytes of the buffer, in order; send does not fail, and
\* when it returns it returns N and the accepted bytes are the whole buffer.
C16_SendSendsWholeBuffer ==
    sending.status # "idle" =>
        /\ sending.wire = Substr(sending.buf, 0, sending.totalSent)
        /\ sending.fatal = 0 => sending.status # "thrown"
        /\ sending.status = "returned" =>
              /\ sending.ret = Len(sending.buf)
              /\ sending.wire = sending.buf

\* send returned after three partial writes and would-block results
C16_Witness ==
    /\ sending.status = "returned"
    /\ sending.buf = <<"a", "b", "c">>
    /\ sending.writes = 3
    /\ sending.blocked > 0

\* C17: send ends: it returns N, or it fails with std::system_error on the
\* first write error that is not would-block; would-block results alone never
\* make it fail; and a running send returns or fails, given that the write
\* primitive does not report would-block forever.
C17_SendTerminates ==
    /\ [](sending.status # "idle" =>
            /\ sending.fatal <= 1
            /\ (sending.status = "thrown") <=> (sending.fatal = 1)
            /\ sending.status = "thrown" => sending.exc = "system_error"
            /\ sending.status = "returned" => sending.ret = Len(sending.buf))
    /\ (sending.status = "running") ~> (sending.status \in {"returned", "thrown"})

\* send failed on a write error that came after would-block results and a
\* partial write
C17_Witness ==
    /\ sending.status = "thrown"
    /\ sending.blocked > 0
    /\ sending.totalSent > 0

\* C18: recv returns 0, and raises nothing, when its one read reports
\* would-block; any other negative result makes it fail with
\* std::system_error; a positive result is returned unchanged.
C18_RecvWouldBlockReturnsZero ==
    lastCall.op = "Socket::recv" =>
        /\ (lastCall.read.ret < 0 /\ lastCall.read.errno \in WouldBlockErrnos) =>
              lastCall.ret = 0 /\ lastCall.exc = NoExc
        /\ (lastCall.read.ret < 0 /\ lastCall.read.errno \notin WouldBlockErrnos) =>
              lastCall.exc = "system_error"
        /\ lastCall.read.ret > 0 =>
              lastCall.ret = lastCall.read.ret /\ lastCall.exc = NoExc

\* the system call c was made by the last Socket::connect
Made(c) == \E i \in 1..Len(lastCall.calls) : lastCall.calls[i] = c

\* the outcome of the last Socket::connect, from the results of its system
\* calls: success exactly for a synchronous completion or a readiness with no
\* pending error; zero readiness events give the timeout failure, a poll error
\* the poll failure, a pending error or a connect error other than
\* in-progress the connect failure; every interrupted poll was followed by
\* another poll
ConnectOutcome ==
    LET env     == lastCall.env
        sync    == Made("connect") /\ env.conn = "done"
        waiting == Made("connect") /\ env.conn = "inprogress"
        ready   == waiting /\ env.poll = "ready"
        polls   == {i \in 1..Len(lastCall.calls) : lastCall.calls[i] = "poll"}
    IN  /\ (lastCall.exc = NoExc) <=> (sync \/ (ready /\ env.soerr = "zero"))
        /\ lastCall.exc # NoExc => lastCall.exc = "runtime_error"
        /\ (waiting /\ env.poll = "timeout") =>
              lastCall.exc # NoExc /\ lastCall.what = "timeout"
        /\ (waiting /\ env.poll = "error") =>
              lastCall.exc # NoExc /\ lastCall.what = "poll"
        /\ ((ready /\ env.soerr = "nonzero")
            \/ (Made("connect") /\ env.conn = "error")) =>
              lastCall.exc # NoExc /\ lastCall.what = "failed"
        /\ waiting => Cardinality(polls) = Len(env.interrupts) + 1
        /\ lastCall.what = "poll" => env.poll = "error"

\* C19 as stated: Socket::connect ends in one of the outcomes above, and the
\* socket is switched to non-blocking before the connect call and is
\* non-blocking after the call in every outcome.
C19_ConnectOutcomes ==
    lastCall.op = "Socket::connect" =>
        /\ ConnectOutcome
        /\ lastCall.calls[1] = "fcntl"
        /\ lastCall.fd \in nonblock

\* C19 (amended): Socket::connect ends in one of the outcomes above.  When
\* the switch to non-blocking succeeds it precedes the connect call and the
\* socket is non-blocking after the call in every outcome; when the switch
\* fails, connect raises the control failure without making the connect
\* call and the socket's mode is left as it was.  A failing query of the
\* pending error is a raised failure as well.
C19_ConnectOutcomesOrControlFailure ==
    lastCall.op = "Socket::connect" =>
        /\ ConnectOutcome
        /\ lastCall.calls[1] = "fcntl"
        /\ lastCall.env.fcntl = "ok" =>
              /\ Made("connect")
              /\ lastCall.fd \in nonblock
        /\ lastCall.env.fcntl # "ok" =>
              /\ lastCall.exc = "runtime_error"
              /\ lastCall.what = "control"
              /\ ~Made("connect")
              /\ (lastCall.fd \in nonblock) <=> lastCall.wasNonBlocking
        /\ (Made("getsockopt") /\ lastCall.env.soerr = "getsockopt_fail") =>
              lastCall.exc = "runtime_error" /\ lastCall.what = "getsockopt"

\* a connect whose poll was interrupted, polled again and succeeded
C19_Witness ==
    /\ lastCall.op = "Socket::connect"
    /\ lastCall.env.interrupts # <<>>
    /\ lastCall.exc = NoExc
    /\ lastCall.fd \in nonblock

\* C20: a connect whose handshake never completes fails with the timeout
\* failure after waiting at most timeout_ms in total, also when the poll is
\* interrupted and called again.
C20_TimeoutWithinBound ==
    (/\ lastCall.op = "Socket::connect"
     /\ Made("connect")
     /\ lastCall.env.conn = "inprogress"
     /\ lastCall.env.poll = "timeout")
    => /\ lastCall.exc = "runtime_error"
       /\ lastCall.what = "timeout"
       /\ lastCall.waited <= lastCall.timeout_ms

---------------------------------------------------------------------------
(* Properties of HttpResponse::parse (ParseSpec), stated on the parts the  *)
(* response data was put together from                                     *)

\* the number of spaces of a line
Spaces(line) == Cardinality({i \in 1..Len(line) : line[i] = SP})

\* the fields of a line, separated by single spaces
RECURSIVE Fields(_)
Fields(line) ==
    LET sp == Find(line, <<SP>>, 0)
    IN  IF sp = NPOS THEN <<line>>
        ELSE <<Substr(line, 0, sp)>> \o Fields(SubstrFrom(line, sp + 1))

\* the decimal text of a known status code
KnownCodeText(text) ==
    /\ IsNumber(text)
    /\ text[1] # "0"
    /\ DigitsValue(text) \in REASON_MAP \ {INVALID}

\* parse has returned
Parsed == lastCall.op = "parse" /\ parsed \in {"ok", "fail"}

\* the start line given to the parser has a version, a known status code and
\* a (possibly empty) reason phrase
GivenStartLineOK ==
    /\ Len(Fields(lastCall.startLine)) >= 3
    /\ KnownCodeText(Fields(lastCall.startLine)[2])

\* the lengths the Content-Length fields of the given response declare
GivenLengths ==
    {DigitsValue(lastCall.fields[i].value) :
        i \in {j \in 1..Len(lastCall.fields) :
                 toLower(lastCall.fields[j].key) = toLower(CONTENT_LENGTH)}}

\* C21: parse returns false for every raw response whose Content-Length
\* header declares a length greater than the number of bytes present after
\* the header/body delimiter, also when no bytes at all follow the delimiter.
C21_TruncatedBodyRejected ==
    (Parsed /\ \E L \in GivenLengths :
                  GivenLengths = {L} /\ L > Len(lastCall.body))
    => parsed = "fail"

\* C21 (amended): parse returns false for every raw response whose
\* Content-Length header declares a length greater than the number of bytes
\* present after the delimiter when at least one byte follows the delimiter;
\* when no byte follows it, the declared length is not looked at: the body
\* stage reports no error, and a parse that succeeds leaves the body empty.
C21_TruncatedNonEmptyBodyRejected ==
    (Parsed /\ \E L \in GivenLengths :
                  GivenLengths = {L} /\ L > Len(lastCall.body))
    => /\ Len(lastCall.body) > 0 => parsed = "fail"
       /\ Len(lastCall.body) = 0 =>
             /\ \A i \in 1..Len(lastCall.log) :
                   lastCall.log[i] # "Malformed request: Invalid body."
             /\ parsed = "ok" => response.body = <<>>
             /\ GivenStartLineOK => parsed = "ok"

\* the body stage was reached with fewer bytes than declared, but some
C21_Witness ==
    /\ Parsed
    /\ GivenStartLineOK
    /\ GivenLengths = {5}
    /\ Len(lastCall.body) = 2
    /\ parsed = "fail"

\* C22: given a response with a well-formed start line, a known status code,
\* a Content-Length header of value L and at least L bytes after the
\* delimiter, parse returns true with getStatus() equal to the declared code
\* and getBody() equal to exactly the first L bytes after the delimiter.
C22_FramingByContentLength ==
    (Parsed /\ GivenStartLineOK
     /\ \E L \in GivenLengths : GivenLengths = {L} /\ Len(lastCall.body) >= L)
    => LET L == CHOOSE x \in GivenLengths : TRUE
       IN  /\ parsed = "ok"
           /\ response.status = DigitsValue(Fields(lastCall.startLine)[2])
           /\ response.body = SubSeq(lastCall.body, 1, L)

\* a body longer than the declared, positive length was cut to that length
C22_Witness ==
    /\ Parsed
    /\ GivenStartLineOK
    /\ GivenLengths = {2}
    /\ Len(lastCall.body) = 5
    /\ response.body = <<"h", "e">>
    /\ response.status = 404

\* C23: parse returns true for every input that has a start-line terminator,
\* a well-formed start line with a known status code, a CR LF CR LF
\* header/body delimiter and no Content-Length exceeding the available bytes;
\* in particular a response with zero header lines parses successfully.
C23_FailsOnlyForListedReasons ==
    (Parsed /\ GivenStartLineOK
     /\ Find(raw, CRLF, 0) # NPOS
     /\ Find(raw, CRLFCRLF, 0) # NPOS
     /\ \A L \in GivenLengths : L <= Len(lastCall.body))
    => parsed = "ok"

\* C24: parse returns false whenever the status-code field of the start line
\* is not the decimal text of a known status code: non-numeric text, a number
\* that is not a known code, and text with trailing non-digits.
C24_BadStatusCodeRejected ==
    (Parsed /\ Len(Fields(lastCall.startLine)) >= 2
     /\ ~KnownCodeText(Fields(lastCall.startLine)[2]))
    => parsed = "fail"

\* the parser reported the start line as malformed
RejectedAsMalformed ==
    \E i \in 1..Len(lastCall.log) :
        lastCall.log[i] \in
            {"Malformed start line: Missing space after version.",
             "Malformed start line: Missing space after URI."}

\* C25: parse rejects a start line as malformed exactly when it has fewer
\* than two space-separated fields; a start line made of a version and a
\* known status code with no reason phrase is not rejected as malformed.
C25_MalformedIffFewerThanTwoFields ==
    Parsed => (RejectedAsMalformed <=> Len(Fields(lastCall.startLine)) < 2)

\* C25 (amended): parse rejects a start line as malformed exactly when it has
\* fewer than two spaces, that is fewer than three space-separated fields of
\* which the last, the reason phrase, may be empty; a start line made of a
\* version and a status code only is rejected as malformed.
C25_MalformedIffFewerThanTwoSpaces ==
    Parsed => (RejectedAsMalformed <=> Spaces(lastCall.startLine) < 2)

\* a version and a known status code with no reason phrase were rejected
C25_Witness ==
    /\ Parsed
    /\ Len(Fields(lastCall.startLine)) = 2
    /\ KnownCodeText(Fields(lastCall.startLine)[2])
    /\ RejectedAsMalformed
    /\ parsed = "fail"

\* C26: after a successful parse of a response with no Content-Length header,
\* getBody() is exactly the bytes that follow the header/body delimiter; when
\* no bytes follow the delimiter the body is empty and parse still succeeds.
C26_BodyWithoutContentLength ==
    (Parsed /\ GivenLengths = {})
    => /\ parsed = "ok" => response.body = lastCall.body
       /\ (GivenStartLineOK /\ lastCall.fields # <<>> /\ lastCall.body = <<>>)
             => parsed = "ok"

---------------------------------------------------------------------------
(* Properties of the header map (HeaderSpec)                                *)

\* the calls made so far whose key equals key in any letter case
CallsOn(key) ==
    {i \in 1..Len(trace) : toLower(trace[i].key) = toLower(key)}

\* the last call made on key is a setHeader
LastIsSet(key) ==
    /\ CallsOn(key) # {}
    /\ trace[CHOOSE i \in CallsOn(key) : \A j \in CallsOn(key) : j <= i].op
          = "setHeader"

LastValue(key) ==
    trace[CHOOSE i \in CallsOn(key) : \A j \in CallsOn(key) : j <= i].value

\* C27: for any sequence of setHeader and removeHeader calls with keys in any
\* letter case, the header map holds at most one entry per case-folded key
\* and only lowercase keys, and getHeader(k) returns the value of the most
\* recent setHeader whose key equals k case-insensitively and was not removed
\* afterwards (last write wins).
C27_LastWriteWins ==
    /\ \A k \in DOMAIN request.headers : k = toLower(k)
    /\ \A k1, k2 \in DOMAIN request.headers :
          toLower(k1) = toLower(k2) => k1 = k2
    /\ \A key \in LookupKeys :
          /\ hasHeader(request, key) <=> LastIsSet(key)
          /\ LastIsSet(key) => getHeader(request, key) = LastValue(key)

\* the same key was set twice in different letter case, then a key that was
\* never set was removed, and the key is looked up in a third letter case
C27_Witness ==
    /\ Len(trace) = 3
    /\ trace[1] = [op |-> "setHeader", key |-> <<"A","b">>, value |-> <<"1">>]
    /\ trace[2] = [op |-> "setHeader", key |-> <<"a","B">>, value |-> <<"2">>]
    /\ trace[3].op = "removeHeader" /\ trace[3].key = <<"c">>
    /\ DOMAIN request.headers = {<<"a","b">>}
    /\ getHeader(request, <<"A","B">>) = <<"2">>

---------------------------------------------------------------------------
(* Properties of the Request's serialization (RequestSpec)                 *)

\* C28: serializing a Request and parsing the bytes back with the symmetric
\* parser (start line, then headers split at the first colon, then body)
\* preserves method, URI, every header (keys compared case-insensitively)
\* and the body bytes exactly.
C28_RoundTrip ==
    pc = "parsed" =>
        /\ lastCall.back.method = request.method
        /\ lastCall.back.uri = request.uri
        /\ DOMAIN lastCall.back.headers = DOMAIN request.headers
        /\ \A k \in DOMAIN request.headers :
              lastCall.back.headers[k] = request.headers[k]
        /\ lastCall.back.body = request.body

\* the lines of a text up to its first empty line, and what follows that line
RECURSIVE HeadLines(_)
HeadLines(text) ==
    LET e == Find(text, CRLF, 0)
    IN  IF e = NPOS THEN [lines |-> <<>>, rest |-> text, blank |-> FALSE]
        ELSE IF e = 0
        THEN [lines |-> <<>>, rest |-> SubstrFrom(text, 2), blank |-> TRUE]
        ELSE LET c == HeadLines(SubstrFrom(text, e + 2))
             IN  [c EXCEPT !.lines = <<Substr(text, 0, e)>> \o @]

\* C29: serializeRequest returns METHOD, space, URI, space, VERSION, CR LF,
\* then exactly one `key: value` CR LF line per stored header, then one blank
\* CR LF line, then the body bytes when the body is non-empty and nothing
\* otherwise; a Request whose method is not one of the eight standard tokens
\* serializes the method as INVALID.
C29_SerializedForm ==
    (pc = "serialized" /\ lastCall.op = "setMethod") =>
        LET cut   == HeadLines(raw)
            lines == cut.lines
        IN  /\ cut.blank
            /\ Len(lines) = 1 + Cardinality(DOMAIN request.headers)
            /\ lines[1] = request.method \o <<SP>> \o request.uri
                          \o <<SP>> \o request.version
            /\ {lines[i] : i \in 2..Len(lines)}
                  = {k \o <<":", SP>> \o request.headers[k] :
                        k \in DOMAIN request.headers}
            /\ cut.rest = request.body
            /\ Fields(lines[1])[1] =
                  IF lastCall.method \in
                        {"GET", "POST", "PUT", "DELETE", "HEAD", "OPTIONS",
                         "TRACE", "CONNECT"}
                  THEN METHOD_MAP[lastCall.method]
                  ELSE <<"I","N","V","A","L","I","D">>

\* a Request with the INVALID method, two headers and no body was serialized
C29_Witness ==
    /\ pc = "serialized"
    /\ lastCall.op = "setMethod"
    /\ lastCall.method = "INVALID"
    /\ Cardinality(DOMAIN request.headers) = 2
    /\ request.body = <<>>
    /\ request.uri # <<>>
    /\ HeadLines(raw).rest = <<>>

---------------------------------------------------------------------------
(* Properties of processRequest on a kept-alive connection (KeepAliveSpec) *)

\* C30: the response parsed in a processRequest call is the server's
\* response to the request sent in that call: its body is the number the
\* request's URI asks for, never that of an earlier request
C30_ResponseAnswersOwnRequest ==
    pc = "keepalive" => response.body = SubstrFrom(request.uri, 1)

---------------------------------------------------------------------------
(* Properties of the Connection Manager's fields (ManagerSpec)             *)

\* C34: in every state the Connection Manager reaches by connect,
\* disconnect, isConnected, send and receive calls, the connected flag is
\* true only while a socket is held
C34_ConnectedImpliesSocket == connected => socket # 0

\* a connect on a manager that held a connected socket has succeeded, and
\* a socket has been released before
C34_Witness ==
    /\ lastCall.op = "connect"
    /\ lastCall.hadSocket
    /\ lastCall.ret
    /\ connected
    /\ socket = 2

---------------------------------------------------------------------------
(* Properties of Config::loadConfig (ConfigSpec)                           *)

\* C39: loadConfig parses the command-line arguments at most once: every
\* call after the first returns without parsing and leaves the
\* configuration data unchanged
C39_ParsedAtMostOnce ==
    [][Len(trace) >= 1 => ~lastCall'.parsed /\ config' = config]_vars

---------------------------------------------------------------------------
(* Properties of the Logger and of signalHandler (LoggerSpec,              *)
(* LoggerLiveSpec)                                                         *)

\* C31: a signal delivered at any point, also while the interrupted thread
\* is inside Logger::log or Logger::print and holds the logger mutex, never
\* deadlocks the program: signalHandler returns and the menu loop goes on to
\* EXIT
C31_SignalLeadsToExit == (signal_received # 0) ~> (currentState = "EXIT")

\* the callers between the lock and the unlock of their call
Writing == {c \in Callers : logpc[c].at \in {"write", "endl", "unlock"}}

\* every text written is followed by the line end of the same caller before
\* anything else is written
WholeLines ==
    \A i \in 1..Len(out) :
        IF out[i].part = "text"
        THEN i < Len(out) =>
                out[i + 1].part = "endl" /\ out[i + 1].by = out[i].by
        ELSE i > 1 /\ out[i - 1].part = "text" /\ out[i - 1].by = out[i].by

\* C38: concurrent calls of Logger::log and Logger::print are serialized:
\* at most one caller is writing to the output at any time, and the lines
\* of two writers never interleave
C38_WritersSerialized ==
    /\ Cardinality(Writing) <= 1
    /\ WholeLines

\* one thread waits for the mutex while the other is in the middle of its
\* line, after signalHandler has printed a line of its own
C38_Witness ==
    /\ logpc["main"].at = "lock"
    /\ logpc["worker"].at = "endl"
    /\ logMutex = "worker"
    /\ \E i \in 1..Len(out) : out[i].by = "signalHandler"


---------------------------------------------------------------------------
(* Properties of InputHandler::run (MenuSpec, MenuLiveSpec)                *)

\* a step of run, which moves its position or its state; a signal and the
\* end of the input move neither
RunStep == <<pc, currentState>>' # <<pc, currentState>>

\* the prompts at which the user enters a value or a choice of the request
\* menu
EscPrompts ==
    {"ENTER_IP", "ENTER_PORT", "ENTER_URI", "ENTER_POST_BODY", "REQUEST_MENU"}

\* C33: on every path by which run returns, clearConnection has run before:
\* ip and port are empty and the Connection Manager holds no socket
C33_CleanUpBeforeReturn ==
    pc = "returned" => ip = <<>> /\ port = <<>> /\ socket = 0 /\ ~connected

\* C35: in the states REQUEST_MENU, ENTER_URI and ENTER_POST_BODY, hence
\* whenever a request is built and sent, ip and port are both non-empty
C35_BrowsingHasServer ==
    /\ currentState \in {"REQUEST_MENU", "ENTER_URI", "ENTER_POST_BODY"}
          => ip # <<>> /\ port # <<>>
    /\ pc \in {"loop", "thrown"} /\ lastCall.sends > 0
          => ip # <<>> /\ port # <<>>

\* a request was sent to the server entered at the prompts and the URI
\* prompt is entered again
C35_Witness ==
    /\ pc = "loop"
    /\ currentState = "ENTER_URI"
    /\ lastCall.sends = 1
    /\ ip = <<"1",".","2",".","3",".","4">>
    /\ port = <<"8","0">>

\* C36: the ESC key entered at the prompt of ENTER_IP, ENTER_PORT,
\* ENTER_URI, ENTER_POST_BODY or of the request menu moves the state to
\* MAIN_MENU, and no request is sent and the Connection Manager is neither
\* connected nor disconnected
C36_EscReturnsToMainMenu ==
    [][pc = "input" /\ RunStep /\ currentState \in EscPrompts
       /\ lastCall'.esc /\ lastCall'.acted
       => /\ currentState' = "MAIN_MENU"
          /\ previousState' = currentState
          /\ pc' = "loop"
          /\ lastCall'.sends = 0
          /\ ~lastCall'.managed
          /\ UNCHANGED <<wvars, ip, port>>]_vars

\* ESC was entered at the URI prompt of a connected handler: MAIN_MENU, and
\* the connection is still there
C36_Witness ==
    /\ pc = "loop"
    /\ lastCall.op = "input"
    /\ lastCall.esc
    /\ lastCall.acted
    /\ currentState = "MAIN_MENU"
    /\ previousState = "ENTER_URI"
    /\ connected
    /\ ip # <<>>

C37_EndOfInputLeadsToExit ==
    (cin = "eof") ~> (currentState = "EXIT" \/ signal_received # 0)

=============================================================================
